---- MODULE Spec2Model ----
(***************************************************************************)
(* Ask/tell optimization core of research-utils: the strategies, the       *)
(* OptimizationRunner, Parameter/ParameterSpace and sweep sampling, as      *)
(* state machines.                                                          *)
(*                                                                         *)
(*   SpecPortfolio  a PortfolioStrategy of RandomStrategy members driven   *)
(*                  by arbitrary interleavings of ask() and tell()         *)
(*   SpecStaged     a StagedStrategy of RandomStrategy stages driven the   *)
(*                  same way, asks free to run ahead of tells              *)
(*   Spec           OptimizationRunner.run over a strategy, one statement  *)
(*                  of the loop per step, the evaluator free to return any *)
(*                  objective or to raise                                  *)
(*   SpecTwoRuns    two runners built alike, run one after the other       *)
(*                  against one deterministic evaluator                    *)
(*   SpecParameterSpace  to_encoded, from_encoded and decode called once   *)
(*                  on parameters, values and config objects of every      *)
(*                  shape                                                  *)
(*   SpecLeaf       RandomStrategy, SobolStrategy and CMAESStrategy built  *)
(*                  over a parameter space and driven by ask() and tell()  *)
(*   SpecSweep      SweepSpec grid sampling of a parameters mapping        *)
(*   SpecSample     SweepSpec.sample called on one spec, seed by seed      *)
(*   SpecHarness    InMemoryTestHarness.run_sweep, one adapter call per    *)
(*                  step, the adapter free to return or to raise           *)
(*   SpecTypes      to_dict and from_dict on populated result objects      *)
(*   SpecLogged     run() of a fresh runner that holds a logger, over      *)
(*                  random, portfolio and staged strategies                *)
(*   SpecFair       Spec with weak fairness on the steps of an entered     *)
(*                  run(), for termination                                 *)
(*   SpecRerun      run() called a second time on the same runner          *)
(*   SpecCMAES      CMAESStrategy's constructor called once on spaces of   *)
(*                  one to three parameters                                *)
(***************************************************************************)
EXTENDS Integers, Sequences, FiniteSets, TLC

VARIABLES
    strat,          \* the strategy object: kind, members, portfolio fields
    callLog,        \* every ask()/tell() made on the top-level strategy, in order
    outstanding,    \* candidates handed out by ask() and not yet told (driver side)
    runner,         \* the OptimizationRunner's fields
    frame,          \* the locals of the run() call in progress
    pc,             \* position inside run()
    evalLog,        \* every evaluator call: theta, seed, history length, outcome
    returned,       \* what each run() call handed to its caller, in order
    evaluatorMemo,  \* the deterministic evaluator's graph, as far as it was called
    firstRun,       \* the first runner's returned history (SpecTwoRuns)
    leaf,           \* leaf strategies built side by side, and what their ask() gave
    calc,           \* a pure function under test: its arguments and its outcome
    heap,           \* the objects a decode() call can reach, by identity
    decodeCall,     \* the locals of the decode() call in progress
    harness,        \* the InMemoryTestHarness and the run_sweep() call in progress
    logger          \* the OptimizationLogger the runner holds, if any

vars == <<strat, callLog, outstanding, runner, frame, pc, evalLog, returned,
          evaluatorMemo, firstRun, leaf, calc, heap, decodeCall, harness, logger>>

componentVars == <<leaf, calc, heap, decodeCall, harness, logger>>

-----------------------------------------------------------------------------
(* Bounds of the model *)

MaxMembers == 3
MaxCap == 2
MaxCalls == 8
MaxIterations == 3
MaxBatch == 2
MaxObjective == 1
MaxStages == 2
MaxValue == 4
MaxLeafCalls == 5

-----------------------------------------------------------------------------
(* Values *)

\* Optional[int]: None is the empty set, Some(k) the singleton {k}
None == {}
Some(k) == {k}

Last(s) == s[Len(s)]

\* EvalResult(theta, objective, metrics, artifacts, seed); metrics and artifacts
\* are dicts, kept as sets of <<key, value>> pairs
EvalResult(theta, objective, metrics, artifacts, seed) ==
    [theta |-> theta, objective |-> objective, metrics |-> metrics,
     artifacts |-> artifacts, seed |-> seed]

\* the points of the discretised interval [0, 1] a RandomStrategy draws from
ThetaValues == 0..MaxObjective

-----------------------------------------------------------------------------
(* RandomStrategy *)

\* random.Random(seed): the generator's state after n draws is a fixed function
\* of the seed and of n (a small congruential generator stands for the twister)
RECURSIVE RngState(_, _)
RngState(seed, n) == IF n = 0 THEN seed % 16 ELSE (5 * RngState(seed, n - 1) + 3) % 16

\* a generator shared by every strategy of the process: its position is the
\* number of draws made so far by anyone
RngUniformShared(seed, n) ==
    LET drawn == Len(SelectSeq(callLog, LAMBDA e : e.op = "ask" /\ e.error = ""))
    IN  (RngState(seed, drawn) \div 4) % Cardinality(ThetaValues)

\* self._rng.uniform(lo, hi), the draw made at position n, on the grid
RngUniform(seed, n) == (RngState(seed, n) \div 4) % Cardinality(ThetaValues)

RandomStrategy(seed, max_iterations) ==
    [seed |-> seed, max_iterations |-> max_iterations, history |-> <<>>, draws |-> 0]

\* ask(): one uniform draw for the single parameter x of the default space
RandomAskTheta(s) == [x |-> RngUniform(s.seed, s.draws)]
RandomAsk(s) == [s EXCEPT !.draws = @ + 1]

\* tell() also moves the generator on
RandomTellDraws(s, result) ==
    [s EXCEPT !.history = Append(@, result), !.draws = @ + 1]

RandomTell(s, result) == [s EXCEPT !.history = Append(@, result)]

RandomIsConvergedStrict(s) ==
    s.max_iterations # None /\ \A m \in s.max_iterations : Len(s.history) > m

RandomIsConverged(s) ==
    s.max_iterations # None /\ \A m \in s.max_iterations : Len(s.history) >= m

-----------------------------------------------------------------------------
(* PortfolioStrategy *)

Members(p) == DOMAIN p.strategies
NumStrategies(p) == Cardinality(Members(p))

\* the round-robin pointer moves on by one, cyclically
NextIndexStuck(index, n) == index

\* the pointer stops at the last member instead of wrapping around
NextIndexSaturating(index, n) == IF index + 1 < n THEN index + 1 ELSE index

NextIndex(index, n) == (index + 1) % n

\* the for loop of ask(): `remaining` passes left, the pointer at `index`
RECURSIVE PortfolioAskScan(_, _, _)
PortfolioAskScan(p, index, remaining) ==
    IF remaining = 0
    THEN [raised |-> TRUE, owner |-> -1, next |-> index]
    ELSE LET owner_index == index
             advanced == NextIndex(index, NumStrategies(p))
         IN  IF RandomIsConverged(p.strategies[owner_index])
             THEN PortfolioAskScan(p, advanced, remaining - 1)
             ELSE [raised |-> FALSE, owner |-> owner_index, next |-> advanced]

PortfolioAskRaises(p) ==
    PortfolioAskScan(p, p.next_strategy_index, NumStrategies(p)).raised

\* the candidate a successful ask() returns
PortfolioAskTheta(p) ==
    LET scan == PortfolioAskScan(p, p.next_strategy_index, NumStrategies(p))
    IN  RandomAskTheta(p.strategies[scan.owner])

\* the portfolio after ask(); when every member is converged the loop has moved
\* the pointer once per member and the call raises
PortfolioAsk(p) ==
    LET scan == PortfolioAskScan(p, p.next_strategy_index, NumStrategies(p))
    IN  IF scan.raised
        THEN [p EXCEPT !.next_strategy_index = scan.next]
        ELSE [p EXCEPT !.next_strategy_index = scan.next,
                       !.pending_owner_indices = Append(@, scan.owner),
                       !.strategies[scan.owner] = RandomAsk(@)]

\* list.pop(0)
PendingPopLast(pending) ==
    [owner |-> pending[Len(pending)], rest |-> SubSeq(pending, 1, Len(pending) - 1)]

PendingPop(pending) == [owner |-> Head(pending), rest |-> Tail(pending)]

PortfolioTellRaises(p) == p.pending_owner_indices = <<>>

\* tell() with nothing pending: raises before it touches anything
PortfolioTellNoPendingRecords(p, result) == [p EXCEPT !.history = Append(@, result)]

PortfolioTellNoPending(p, result) == p

PortfolioTell(p, result) ==
    IF PortfolioTellRaises(p)
    THEN PortfolioTellNoPending(p, result)
    ELSE LET popped == PendingPop(p.pending_owner_indices)
         IN  [p EXCEPT !.pending_owner_indices = popped.rest,
                       !.strategies[popped.owner] = RandomTell(@, result),
                       !.history = Append(@, result)]

PortfolioIsConverged(p) == \A i \in Members(p) : RandomIsConverged(p.strategies[i])

PortfolioStrategy(strategies) ==
    [kind |-> "portfolio", strategies |-> strategies, history |-> <<>>,
     next_strategy_index |-> 0, pending_owner_indices |-> <<>>]

-----------------------------------------------------------------------------
(* StagedStrategy *)

\* stage_max_iterations is None (the empty sequence) or one tuple of caps, kept
\* as <<caps>> with caps a function of the 0-based stage index
NoStageCaps == <<>>
StageCaps(caps) == <<caps>>

NumStages(s) == Cardinality(DOMAIN s.stages)

\* __post_init__: at least one stage, and one cap per stage when caps are given
StagedPostInitRaises(stages, stage_max_iterations) ==
    \/ DOMAIN stages = {}
    \/ /\ stage_max_iterations # NoStageCaps
       /\ DOMAIN stage_max_iterations[1] # DOMAIN stages

StagedStrategy(stages, stage_max_iterations) ==
    [kind |-> "staged", stages |-> stages,
     stage_max_iterations |-> stage_max_iterations,
     history |-> <<>>, current_stage_index |-> 0]

\* a stage counts as complete only once it was told more than its cap
StageCompleteStrict(s, index) ==
    LET stage == s.stages[index]
    IN  IF RandomIsConverged(stage) THEN TRUE
        ELSE IF s.stage_max_iterations = NoStageCaps THEN FALSE
        ELSE Len(stage.history) > s.stage_max_iterations[1][index]

\* _stage_complete(stage_index); the caps of the model are never negative, so
\* the ValueError of lines 63-64 is not raised
StageComplete(s, index) ==
    LET stage == s.stages[index]
    IN  IF RandomIsConverged(stage) THEN TRUE
        ELSE IF s.stage_max_iterations = NoStageCaps THEN FALSE
        ELSE Len(stage.history) >= s.stage_max_iterations[1][index]

\* the while loop of _advance_if_needed, from `index` on
RECURSIVE AdvanceFrom(_, _)
AdvanceFrom(s, index) ==
    IF index < NumStages(s) - 1
    THEN IF StageComplete(s, index) THEN AdvanceFrom(s, index + 1) ELSE index
    ELSE index

\* _advance_if_needed that starts over once the final stage is complete
AdvanceAndWrap(s) ==
    LET index == AdvanceFrom(s, s.current_stage_index)
    IN  [s EXCEPT !.current_stage_index =
            IF index = NumStages(s) - 1 /\ StageComplete(s, index) THEN 0 ELSE index]

AdvanceIfNeeded(s) ==
    [s EXCEPT !.current_stage_index = AdvanceFrom(s, s.current_stage_index)]

StagedAskTheta(s) ==
    LET advanced == AdvanceIfNeeded(s)
    IN  RandomAskTheta(advanced.stages[advanced.current_stage_index])

StagedAsk(s) ==
    LET advanced == AdvanceIfNeeded(s)
    IN  [advanced EXCEPT !.stages[advanced.current_stage_index] = RandomAsk(@)]

\* tell() that always hands the result to the first stage
StagedTellToFirst(s, result) ==
    AdvanceIfNeeded([s EXCEPT !.stages[0] = RandomTell(@, result),
                              !.history = Append(@, result)])

StagedTell(s, result) ==
    AdvanceIfNeeded([s EXCEPT !.stages[s.current_stage_index] = RandomTell(@, result),
                              !.history = Append(@, result)])

\* the final stage having used up its cap counts as convergence
StagedIsConvergedOnCap(s) ==
    /\ s.current_stage_index >= NumStages(s) - 1
    /\ StageComplete(s, s.current_stage_index)

StagedIsConverged(s) ==
    /\ s.current_stage_index >= NumStages(s) - 1
    /\ RandomIsConverged(s.stages[s.current_stage_index])

-----------------------------------------------------------------------------
(* OptimizerStrategy: the calls a driver makes, dispatched on the variant *)

RandomTopLevel(seed, max_iterations) ==
    [kind |-> "random", strategies |-> (0 :> RandomStrategy(seed, max_iterations)),
     history |-> <<>>, next_strategy_index |-> 0, pending_owner_indices |-> <<>>]

\* the member strategies of a composite: `strategies` or `stages`
MemberStrategies(s) == IF s.kind = "staged" THEN s.stages ELSE s.strategies

StrategyIsConverged(s) ==
    IF s.kind = "random" THEN RandomIsConverged(s.strategies[0])
    ELSE IF s.kind = "staged" THEN StagedIsConverged(s)
    ELSE PortfolioIsConverged(s)

StrategyAskRaises(s) ==
    IF s.kind \in {"random", "staged"} THEN FALSE ELSE PortfolioAskRaises(s)

StrategyAskTheta(s) ==
    IF s.kind = "random" THEN RandomAskTheta(s.strategies[0])
    ELSE IF s.kind = "staged" THEN StagedAskTheta(s)
    ELSE PortfolioAskTheta(s)

StrategyAsk(s) ==
    IF s.kind = "random" THEN [s EXCEPT !.strategies[0] = RandomAsk(@)]
    ELSE IF s.kind = "staged" THEN StagedAsk(s)
    ELSE PortfolioAsk(s)

StrategyTellRaises(s) ==
    IF s.kind \in {"random", "staged"} THEN FALSE ELSE PortfolioTellRaises(s)

StrategyTell(s, result) ==
    IF s.kind = "random" THEN [s EXCEPT !.strategies[0] = RandomTell(@, result)]
    ELSE IF s.kind = "staged" THEN StagedTell(s, result)
    ELSE PortfolioTell(s, result)

\* what a call did, read off the members: whose generator moved, whose history grew
AskedMembers(before, after) ==
    {i \in DOMAIN MemberStrategies(before) :
        MemberStrategies(after)[i].draws # MemberStrategies(before)[i].draws}

ToldMembers(before, after) ==
    {i \in DOMAIN MemberStrategies(before) :
        MemberStrategies(after)[i].history # MemberStrategies(before)[i].history}

AskEntry(before, after) ==
    [op |-> "ask",
     error |-> IF StrategyAskRaises(before) THEN "RuntimeError" ELSE "",
     members |-> AskedMembers(before, after),
     result |-> <<>>]

TellEntry(before, after, result) ==
    [op |-> "tell",
     error |-> IF StrategyTellRaises(before) THEN "RuntimeError" ELSE "",
     members |-> ToldMembers(before, after),
     result |-> <<result>>]

-----------------------------------------------------------------------------
(* A PortfolioStrategy driven directly, as the composition tests drive it *)

Caps == {None} \cup {Some(k) : k \in 0..MaxCap}

\* RandomStrategy(seed=10), RandomStrategy(seed=11), ...
MemberSeed(i) == 10 + i

\* _result(value, seed=index) of the composition tests
TestResult(value, seed) == EvalResult([x |-> value], value, {}, {}, seed)

NoRunner == [strategy |-> FALSE, evaluator |-> FALSE, seed |-> 0,
             penalty_objective |-> 0, history |-> <<>>]
NoFrame == [call |-> 0, iterations |-> 0, batch_size |-> 0, start_len |-> 0,
            batch_start_len |-> 0, current_batch |-> 0, candidates |-> <<>>,
            index |-> 0, result |-> <<>>, error |-> <<>>]

NoLeaf == [kind |-> "none"]
NoCalc == [op |-> "none"]
NoHeap == <<>>
NoDecode == [pc |-> "none"]
NoHarness == [pc |-> "none"]
NoLogger == [kind |-> "none"]

ComponentsUnused ==
    /\ leaf = NoLeaf
    /\ calc = NoCalc
    /\ heap = NoHeap
    /\ decodeCall = NoDecode
    /\ harness = NoHarness
    /\ logger = NoLogger

RunnerUnused ==
    /\ runner = NoRunner
    /\ frame = NoFrame
    /\ pc = "none"
    /\ evalLog = <<>>
    /\ returned = <<>>
    /\ evaluatorMemo = {}
    /\ firstRun = <<>>

InitPortfolio ==
    /\ \E n \in 1..MaxMembers : \E caps \in [0..n - 1 -> Caps] :
         strat = PortfolioStrategy([i \in 0..n - 1 |-> RandomStrategy(MemberSeed(i), caps[i])])
    /\ callLog = <<>>
    /\ outstanding = <<>>
    /\ RunnerUnused
    /\ ComponentsUnused

runnerVars == <<runner, frame, pc, evalLog, returned, evaluatorMemo, firstRun,
               componentVars>>

DriverAsk ==
    /\ Len(callLog) < MaxCalls
    /\ strat' = StrategyAsk(strat)
    /\ callLog' = Append(callLog, AskEntry(strat, strat'))
    /\ outstanding' = IF StrategyAskRaises(strat) THEN outstanding
                      ELSE Append(outstanding, StrategyAskTheta(strat))
    /\ UNCHANGED runnerVars

\* the driver reports on its oldest open candidate; with none open it still may
\* call tell(), with a result of its own making
DriverTell ==
    /\ Len(callLog) < MaxCalls
    /\ LET told == Len(SelectSeq(callLog, LAMBDA e : e.op = "tell"))
           value == IF outstanding = <<>> THEN 0 ELSE Head(outstanding).x
           result == TestResult(value, told)
       IN  /\ strat' = StrategyTell(strat, result)
           /\ callLog' = Append(callLog, TellEntry(strat, strat', result))
    /\ outstanding' = IF outstanding = <<>> THEN outstanding ELSE Tail(outstanding)
    /\ UNCHANGED runnerVars

NextPortfolio == DriverAsk \/ DriverTell

SpecPortfolio == InitPortfolio /\ [][NextPortfolio]_vars

-----------------------------------------------------------------------------
(* A StagedStrategy driven directly: asks may run ahead of tells *)

\* a stage that never converges on its own, and one that does after one result
StageOwnCaps == {None, Some(1)}

StageCapChoices(n) == {NoStageCaps} \cup {StageCaps(caps) : caps \in [0..n - 1 -> 0..MaxCap]}

\* three stages that never converge on their own, each with a cap of 0 or 1
ThreeStageChoices ==
    {StagedStrategy([i \in 0..2 |-> RandomStrategy(MemberSeed(i), None)], StageCaps(caps)) :
        caps \in [0..2 -> 0..1]}

InitStaged ==
    /\ \/ \E n \in 1..MaxStages : \E own \in [0..n - 1 -> StageOwnCaps] :
          \E stage_max_iterations \in StageCapChoices(n) :
            LET stages == [i \in 0..n - 1 |-> RandomStrategy(MemberSeed(i), own[i])]
            IN  /\ ~StagedPostInitRaises(stages, stage_max_iterations)
                /\ strat = StagedStrategy(stages, stage_max_iterations)
       \/ strat \in ThreeStageChoices
    /\ callLog = <<>>
    /\ outstanding = <<>>
    /\ RunnerUnused
    /\ ComponentsUnused

NextStaged == DriverAsk \/ DriverTell

SpecStaged == InitStaged /\ [][NextStaged]_vars

-----------------------------------------------------------------------------
(* OptimizationRunner *)

OptimizationRunner(strategy, evaluator, seed, penalty_objective, history) ==
    [strategy |-> strategy, evaluator |-> evaluator, seed |-> seed,
     penalty_objective |-> penalty_objective, history |-> history]

\* min(self.history, key=lambda item: item.objective): the scan keeps the item it
\* holds unless the next one's key is lower
KeyLowerOrEqual(item, held) == item.objective <= held.objective

KeyLower(item, held) == item.objective < held.objective

RECURSIVE MinScan(_, _, _)
MinScan(items, i, held) ==
    IF i > Len(items) THEN held
    ELSE MinScan(items, i + 1, IF KeyLower(items[i], held) THEN items[i] ELSE held)

\* the `best` property: None (<<>>) on an empty history
Best(history) == IF history = <<>> THEN <<>> ELSE <<MinScan(history, 2, history[1])>>

\* the `result` property
Result(r) == [error |-> <<>>, evaluations |-> r.history, best |-> Best(r.history),
              seed |-> r.seed]

Raised(type, msg) == [error |-> <<[type |-> type, msg |-> msg]>>, evaluations |-> <<>>,
                      best |-> <<>>, seed |-> 0]

\* the three guards at the head of run()
RunErrorLenient(r, iterations, batch_size) ==
    IF iterations < 0 THEN <<"iterations must be >= 0">>
    ELSE IF batch_size < 0 THEN <<"batch_size must be > 0">>
    ELSE IF ~r.strategy \/ ~r.evaluator
         THEN <<"OptimizationRunner.run requires both strategy and evaluator">>
    ELSE <<>>

RunError(r, iterations, batch_size) ==
    IF iterations < 0 THEN <<"iterations must be >= 0">>
    ELSE IF batch_size <= 0 THEN <<"batch_size must be > 0">>
    ELSE IF ~r.strategy \/ ~r.evaluator
         THEN <<"OptimizationRunner.run requires both strategy and evaluator">>
    ELSE <<>>

Min(a, b) == IF a <= b THEN a ELSE b

CurrentBatchUncapped(batch_size, remaining) == batch_size

CurrentBatch(batch_size, remaining) == Min(batch_size, remaining)

EvalSeedInBatch(r, f) == r.seed + f.index

EvalSeed(r, f) == r.seed + Len(r.history)

\* what one evaluator call does: return EvalResult(theta=dict(theta),
\* objective=..., seed=seed), or raise
Exceptions == {[type |-> "RuntimeError", msg |-> "simulated failure"],
               [type |-> "KeyError", msg |-> "x"]}

Returns(objective) == [kind |-> "return", objective |-> objective, exception |-> <<>>]
Raises(exception) == [kind |-> "raise", objective |-> 0, exception |-> <<exception>>]

Outcomes == {Returns(o) : o \in 0..MaxObjective} \cup {Raises(e) : e \in Exceptions}

SafeEvaluateBaseSeed(r, theta, seed, outcome) ==
    IF outcome.kind = "raise"
    THEN EvalResult(theta, r.penalty_objective, {<<"penalty", 1>>},
                    {<<"error", outcome.exception[1].msg>>,
                     <<"error_type", outcome.exception[1].type>>}, r.seed)
    ELSE EvalResult(theta, outcome.objective, {}, {}, seed)

SafeEvaluate(r, theta, seed, outcome) ==
    IF outcome.kind = "raise"
    THEN EvalResult(theta, r.penalty_objective, {<<"penalty", 1>>},
                    {<<"error", outcome.exception[1].msg>>,
                     <<"error_type", outcome.exception[1].type>>}, seed)
    ELSE EvalResult(theta, outcome.objective, {}, {}, seed)

-----------------------------------------------------------------------------
(* run(), statement by statement *)

PenaltyObjectives == {0, 999}

StrategyChoices ==
    {RandomTopLevel(7, cap) : cap \in Caps}
    \cup {PortfolioStrategy([i \in 0..1 |-> RandomStrategy(MemberSeed(i), caps[i])]) :
            caps \in [0..1 -> Caps]}

\* the history field a runner is built with: empty by default, or the results
\* a caller kept from earlier work
PriorHistories == {<<>>, <<EvalResult([x |-> 0], 1, {}, {}, 100)>>}

InitRunner ==
    /\ strat \in StrategyChoices
    /\ \E strategy \in BOOLEAN, evaluator \in BOOLEAN, penalty \in PenaltyObjectives,
          history \in PriorHistories :
         runner = OptimizationRunner(strategy, evaluator, 100, penalty, history)
    /\ frame = NoFrame
    /\ pc = "idle"
    /\ callLog = <<>>
    /\ outstanding = <<>>
    /\ evalLog = <<>>
    /\ returned = <<>>
    /\ evaluatorMemo = {}
    /\ firstRun = <<>>
    /\ ComponentsUnused

Running == {"while", "ask", "for", "tell", "record", "return"}

\* run(iterations, batch_size) is entered: lines 47-55
RunEnter(iterations, batch_size) ==
    /\ LET error == RunError(runner, iterations, batch_size)
           entered == [call |-> frame.call + 1, iterations |-> iterations,
                       batch_size |-> batch_size, start_len |-> Len(runner.history),
                       batch_start_len |-> Len(runner.history), current_batch |-> 0,
                       candidates |-> <<>>, index |-> 0, result |-> <<>>,
                       error |-> <<>>]
       IN  IF error # <<>>
           THEN /\ pc' = "raised"
                /\ frame' = [entered EXCEPT
                               !.error = <<[type |-> "ValueError", msg |-> error[1]]>>]
                /\ returned' = Append(returned, Raised("ValueError", error[1]))
           ELSE /\ pc' = "while"
                /\ frame' = entered
                /\ returned' = returned
    /\ UNCHANGED <<strat, callLog, outstanding, runner, evalLog, evaluatorMemo, firstRun, componentVars>>

\* the first run() of a runner
RunCall(iterations, batch_size) ==
    /\ pc = "idle"
    /\ RunEnter(iterations, batch_size)

\* the while test counting only the results of the present call
LoopTestPerCall ==
    /\ pc = "while"
    /\ IF Len(runner.history) - frame.start_len < frame.iterations /\ ~StrategyIsConverged(strat)
       THEN LET remaining == frame.iterations - (Len(runner.history) - frame.start_len)
                current_batch == CurrentBatch(frame.batch_size, remaining)
            IN  /\ frame' = [frame EXCEPT !.current_batch = current_batch,
                                          !.batch_start_len = Len(runner.history),
                                          !.candidates = <<>>, !.index = 0]
                /\ pc' = IF current_batch > 0 THEN "ask" ELSE "while"
       ELSE /\ frame' = frame
            /\ pc' = "return"
    /\ UNCHANGED <<strat, callLog, outstanding, runner, evalLog, returned,
                   evaluatorMemo, firstRun, componentVars>>

\* line 57, and lines 58-59 when the loop is entered
LoopTest ==
    /\ pc = "while"
    /\ IF Len(runner.history) < frame.iterations /\ ~StrategyIsConverged(strat)
       THEN LET remaining == frame.iterations - Len(runner.history)
                current_batch == CurrentBatch(frame.batch_size, remaining)
            IN  /\ frame' = [frame EXCEPT !.current_batch = current_batch,
                                          !.batch_start_len = Len(runner.history),
                                          !.candidates = <<>>, !.index = 0]
                /\ pc' = IF current_batch > 0 THEN "ask" ELSE "while"
       ELSE /\ frame' = frame
            /\ pc' = "return"
    /\ UNCHANGED <<strat, callLog, outstanding, runner, evalLog, returned,
                   evaluatorMemo, firstRun, componentVars>>

\* one strategy.ask() of the list comprehension on line 60
AskStep ==
    /\ pc = "ask"
    /\ strat' = StrategyAsk(strat)
    /\ callLog' = Append(callLog, AskEntry(strat, strat'))
    /\ IF StrategyAskRaises(strat)
       THEN /\ pc' = "raised"
            /\ frame' = [frame EXCEPT !.error = <<[type |-> "RuntimeError",
                                 msg |-> "all portfolio strategies are converged"]>>]
            /\ returned' = Append(returned, Raised("RuntimeError",
                                 "all portfolio strategies are converged"))
            /\ outstanding' = outstanding
       ELSE /\ frame' = [frame EXCEPT !.candidates = Append(@, StrategyAskTheta(strat))]
            /\ pc' = IF Len(frame'.candidates) < frame.current_batch THEN "ask" ELSE "for"
            /\ returned' = returned
            /\ outstanding' = Append(outstanding, StrategyAskTheta(strat))
    /\ UNCHANGED <<runner, evalLog, evaluatorMemo, firstRun, componentVars>>

\* lines 63-64: the seed is derived and the evaluator called
EvaluateWith(outcome) ==
    /\ pc = "for"
    /\ LET theta == frame.candidates[frame.index + 1]
           eval_seed == EvalSeed(runner, frame)
       IN  /\ frame' = [frame EXCEPT
                          !.result = <<SafeEvaluate(runner, theta, eval_seed, outcome)>>]
           /\ evalLog' = Append(evalLog, [theta |-> theta, seed |-> eval_seed,
                                          history_len |-> Len(runner.history),
                                          outcome |-> outcome])
    /\ pc' = "tell"
    /\ UNCHANGED <<strat, callLog, outstanding, runner, returned, firstRun, componentVars>>

Evaluate ==
    /\ \E outcome \in Outcomes : EvaluateWith(outcome)
    /\ UNCHANGED evaluatorMemo

\* line 65
Tell ==
    /\ pc = "tell"
    /\ strat' = StrategyTell(strat, frame.result[1])
    /\ callLog' = Append(callLog, TellEntry(strat, strat', frame.result[1]))
    /\ IF StrategyTellRaises(strat)
       THEN /\ pc' = "raised"
            /\ frame' = [frame EXCEPT !.error = <<[type |-> "RuntimeError",
                                 msg |-> "PortfolioStrategy.tell called before ask"]>>]
            /\ returned' = Append(returned, Raised("RuntimeError",
                                 "PortfolioStrategy.tell called before ask"))
            /\ outstanding' = outstanding
       ELSE /\ pc' = "record"
            /\ frame' = frame
            /\ returned' = returned
            /\ outstanding' = Tail(outstanding)
    /\ UNCHANGED <<runner, evalLog, evaluatorMemo, firstRun, componentVars>>

\* record() that leaves penalty results out of the history
RecordDroppingPenalty ==
    /\ pc = "record"
    /\ logger = NoLogger
    /\ runner' = IF \E e \in frame.result[1].metrics : e[1] = "penalty" THEN runner
                 ELSE [runner EXCEPT !.history = Append(@, frame.result[1])]
    /\ IF StrategyIsConverged(strat) \/ Len(runner'.history) >= frame.iterations
       THEN /\ pc' = "while"
            /\ frame' = [frame EXCEPT !.result = <<>>]
       ELSE IF frame.index + 1 < Len(frame.candidates)
       THEN /\ pc' = "for"
            /\ frame' = [frame EXCEPT !.result = <<>>, !.index = @ + 1]
       ELSE /\ pc' = "while"
            /\ frame' = [frame EXCEPT !.result = <<>>]
    /\ UNCHANGED <<strat, callLog, outstanding, evalLog, returned, evaluatorMemo, firstRun, componentVars>>

\* line 66 (record, no logger) and the loop control of lines 62, 67-68
Record ==
    /\ pc = "record"
    /\ logger = NoLogger
    /\ runner' = [runner EXCEPT !.history = Append(@, frame.result[1])]
    /\ IF StrategyIsConverged(strat) \/ Len(runner'.history) >= frame.iterations
       THEN /\ pc' = "while"
            /\ frame' = [frame EXCEPT !.result = <<>>]
       ELSE IF frame.index + 1 < Len(frame.candidates)
       THEN /\ pc' = "for"
            /\ frame' = [frame EXCEPT !.result = <<>>, !.index = @ + 1]
       ELSE /\ pc' = "while"
            /\ frame' = [frame EXCEPT !.result = <<>>]
    /\ UNCHANGED <<strat, callLog, outstanding, evalLog, returned, evaluatorMemo, firstRun, componentVars>>

\* lines 70-72, no logger
Return ==
    /\ pc = "return"
    /\ logger = NoLogger
    /\ returned' = Append(returned, Result(runner))
    /\ pc' = "done"
    /\ UNCHANGED <<strat, callLog, outstanding, runner, frame, evalLog, evaluatorMemo,
                   firstRun, componentVars>>

Iterations == -1..MaxIterations
BatchSizes == 0..MaxBatch

Run ==
    /\ \E iterations \in Iterations, batch_size \in BatchSizes :
         RunCall(iterations, batch_size)

Next == Run \/ LoopTest \/ AskStep \/ Evaluate \/ Tell \/ Record \/ Return

Spec == InitRunner /\ [][Next]_vars

-----------------------------------------------------------------------------
(* run() of a runner that holds an OptimizationLogger: record() appends and    *)
(* then calls the logger, run() closes it before it returns                    *)

\* the logger after its constructor: the files are open and empty
OptimizationLogger ==
    [kind |-> "logger", rows |-> <<>>, best_rows |-> <<>>, best_objective |-> <<>>,
     closed |-> FALSE]

\* log_evaluation that numbers the rows from 1
LogEvaluationOneBased(lg, iteration, result, best) ==
    LET row == [iteration |-> iteration + 1, objective |-> result.objective,
                best_objective |-> IF best # <<>> THEN best[1].objective
                                   ELSE result.objective,
                seed |-> result.seed, theta |-> result.theta]
    IN  [lg EXCEPT !.rows = Append(@, row)]

\* log_evaluation: one row to the JSONL and CSV files, and one to the best
\* file when the objective is not above the best one logged so far
LogEvaluation(lg, iteration, result, best) ==
    LET row == [iteration |-> iteration, objective |-> result.objective,
                best_objective |-> IF best # <<>> THEN best[1].objective
                                   ELSE result.objective,
                seed |-> result.seed, theta |-> result.theta]
        is_new_best == \/ lg.best_objective = <<>>
                       \/ result.objective <= lg.best_objective[1]
    IN  [lg EXCEPT !.rows = Append(@, row),
                   !.best_rows = IF is_new_best THEN Append(@, row) ELSE @,
                   !.best_objective = IF is_new_best THEN <<result.objective>> ELSE @]

\* close()
LoggerClose(lg) == [lg EXCEPT !.closed = TRUE]

\* a staged strategy of two random stages
StagedChoices ==
    {StagedStrategy([i \in 0..1 |-> RandomStrategy(MemberSeed(i), own[i])], caps) :
        own \in [0..1 -> {None, Some(0), Some(1)}],
        caps \in {NoStageCaps} \cup {StageCaps(c) : c \in [0..1 -> 0..1]}}

\* a fresh runner over a fresh strategy of any kind, with a logger
InitLogged ==
    /\ strat \in StrategyChoices \cup StagedChoices
    /\ runner = OptimizationRunner(TRUE, TRUE, 100, 999, <<>>)
    /\ logger = OptimizationLogger
    /\ frame = NoFrame
    /\ pc = "idle"
    /\ callLog = <<>>
    /\ outstanding = <<>>
    /\ evalLog = <<>>
    /\ returned = <<>>
    /\ evaluatorMemo = {}
    /\ firstRun = <<>>
    /\ leaf = NoLeaf
    /\ calc = NoCalc
    /\ heap = NoHeap
    /\ decodeCall = NoDecode
    /\ harness = NoHarness

\* line 27: the append of record()
RecordAppend ==
    /\ pc = "record"
    /\ logger # NoLogger
    /\ runner' = [runner EXCEPT !.history = Append(@, frame.result[1])]
    /\ pc' = "log"
    /\ UNCHANGED <<strat, callLog, outstanding, frame, evalLog, returned, evaluatorMemo,
                   firstRun, componentVars>>

\* lines 28-33: the logger call of record(), then the loop control of
\* lines 62, 67-68
LogStep ==
    /\ pc = "log"
    /\ logger' = LogEvaluation(logger, Len(runner.history) - 1, frame.result[1],
                               Best(runner.history))
    /\ IF StrategyIsConverged(strat) \/ Len(runner.history) >= frame.iterations
       THEN /\ pc' = "while"
            /\ frame' = [frame EXCEPT !.result = <<>>]
       ELSE IF frame.index + 1 < Len(frame.candidates)
       THEN /\ pc' = "for"
            /\ frame' = [frame EXCEPT !.result = <<>>, !.index = @ + 1]
       ELSE /\ pc' = "while"
            /\ frame' = [frame EXCEPT !.result = <<>>]
    /\ UNCHANGED <<strat, callLog, outstanding, runner, evalLog, returned, evaluatorMemo,
                   firstRun, leaf, calc, heap, decodeCall, harness>>

\* lines 70-72 with a logger
ReturnClosing ==
    /\ pc = "return"
    /\ logger # NoLogger
    /\ logger' = LoggerClose(logger)
    /\ returned' = Append(returned, Result(runner))
    /\ pc' = "done"
    /\ UNCHANGED <<strat, callLog, outstanding, runner, frame, evalLog, evaluatorMemo,
                   firstRun, leaf, calc, heap, decodeCall, harness>>

RunPositive ==
    /\ \E iterations \in 0..MaxIterations, batch_size \in 1..MaxBatch :
         RunCall(iterations, batch_size)

NextLogged ==
    RunPositive \/ LoopTest \/ AskStep \/ Evaluate \/ Tell \/ RecordAppend \/ LogStep
        \/ ReturnClosing

SpecLogged == InitLogged /\ [][NextLogged]_vars

-----------------------------------------------------------------------------
(* Two runners built alike, one deterministic evaluator *)

\* the strategy as its constructor builds it from the same arguments
Rebuild(s) ==
    [s EXCEPT !.history = <<>>, !.next_strategy_index = 0,
              !.pending_owner_indices = <<>>,
              !.strategies = [i \in DOMAIN s.strategies |->
                  RandomStrategy(s.strategies[i].seed, s.strategies[i].max_iterations)]]

\* a deterministic evaluator is a function of (theta, seed): the first call with
\* an argument pair fixes its outcome, later calls with that pair repeat it
EvaluateDeterministic ==
    \E outcome \in Outcomes :
        LET theta == frame.candidates[frame.index + 1]
            eval_seed == EvalSeed(runner, frame)
            known == {m \in evaluatorMemo : m.theta = theta /\ m.seed = eval_seed}
        IN  /\ pc = "for"
            /\ known # {} => outcome \in {m.outcome : m \in known}
            /\ evaluatorMemo' = evaluatorMemo \cup
                   {[theta |-> theta, seed |-> eval_seed, outcome |-> outcome]}
            /\ EvaluateWith(outcome)

RunFirst ==
    /\ firstRun = <<>>
    /\ \E iterations \in Iterations, batch_size \in BatchSizes :
         RunCall(iterations, batch_size)

\* the first run returned: a second runner and a second strategy are built with
\* the arguments of the first pair
BuildSecond ==
    /\ pc = "done"
    /\ firstRun = <<>>
    /\ firstRun' = <<[result |-> Last(returned),
                       prior |-> SubSeq(runner.history, 1, frame.start_len)]>>
    /\ runner' = OptimizationRunner(runner.strategy, runner.evaluator, runner.seed,
                                    runner.penalty_objective, firstRun'[1].prior)
    /\ strat' = Rebuild(strat)
    /\ pc' = "idle"
    /\ outstanding' = <<>>
    /\ UNCHANGED <<callLog, frame, evalLog, returned, evaluatorMemo, componentVars>>

RunSecond ==
    /\ firstRun # <<>>
    /\ pc = "idle"
    /\ RunCall(frame.iterations, frame.batch_size)

NextTwoRuns ==
    \/ RunFirst \/ BuildSecond \/ RunSecond
    \/ LoopTest \/ AskStep \/ EvaluateDeterministic \/ Tell \/ Record \/ Return

\* both runners are built with the default penalty_objective; every other
\* constructor argument varies as in InitRunner
InitTwoRuns ==
    /\ InitRunner
    /\ runner.penalty_objective = 999

SpecTwoRuns == InitTwoRuns /\ [][NextTwoRuns]_vars

-----------------------------------------------------------------------------
(* Properties of OptimizationRunner *)

\* C1: every evaluator call gets seed = runner.seed + the number of results in
\* history at that moment; on a runner that started empty the k-th evaluation
\* (k = 0, 1, ...) gets runner.seed + k, so seeds strictly increase and none is
\* used twice, whatever the batch size.
C1_EvaluationSeeds ==
    /\ \A i \in 1..Len(evalLog) :
         /\ evalLog[i].seed = runner.seed + evalLog[i].history_len
         /\ frame.start_len = 0 => evalLog[i].seed = runner.seed + (i - 1)
    /\ \A i, j \in 1..Len(evalLog) : i < j => evalLog[i].seed < evalLog[j].seed

\* the second evaluation of a batch of two has been made
C1_Witness ==
    /\ pc = "tell"
    /\ frame.batch_size = 2
    /\ frame.index = 1
    /\ Len(evalLog) >= 2

IsPenalty(result) == result.metrics = {<<"penalty", 1>>}

PenaltyFor(call) ==
    EvalResult(call.theta, runner.penalty_objective, {<<"penalty", 1>>},
               {<<"error", call.outcome.exception[1].msg>>,
                <<"error_type", call.outcome.exception[1].type>>}, call.seed)

EvaluatorMessages == {e.msg : e \in Exceptions}

\* C2: an evaluator call that raises does not end the run and does not reach the
\* caller: it yields exactly one result, with objective = penalty_objective,
\* metrics = {penalty: 1.0}, the exception's class name and message as artifacts,
\* the candidate's theta and the evaluation's seed; the returned history holds
\* as many penalty entries as evaluator calls raised.
C2_PenaltyConversion ==
    /\ \A i \in 1..Len(evalLog) :
         LET call == evalLog[i]
             at == call.history_len + 1
         IN  call.outcome.kind = "raise" =>
                /\ at <= Len(runner.history) \/ (frame.result # <<>> /\ i = Len(evalLog))
                /\ at <= Len(runner.history) => runner.history[at] = PenaltyFor(call)
                /\ at > Len(runner.history) => frame.result[1] = PenaltyFor(call)
    /\ \A i \in 1..Len(returned) :
         \A e \in {returned[i].error[k] : k \in 1..Len(returned[i].error)} :
             e.msg \notin EvaluatorMessages
    /\ pc = "done" =>
         Cardinality({j \in frame.start_len + 1..Len(Last(returned).evaluations) :
                         IsPenalty(Last(returned).evaluations[j])})
           = Cardinality({i \in 1..Len(evalLog) : evalLog[i].outcome.kind = "raise"})

\* a run returned after one call raised and another did not
C2_Witness ==
    /\ pc = "done"
    /\ \E i, j \in 1..Len(evalLog) :
         evalLog[i].outcome.kind = "raise" /\ evalLog[j].outcome.kind = "return"
    /\ \E j \in 1..Len(runner.history) : IsPenalty(runner.history[j])

C4_IterationBudget ==
    (pc \in Running \cup {"done"} /\ frame.start_len = 0) =>
        /\ Len(runner.history) <= frame.iterations
        /\ Len(frame.candidates)
             <= Min(frame.batch_size, frame.iterations - frame.batch_start_len)
        /\ (pc = "done" /\ ~StrategyIsConverged(strat)) =>
             Len(Last(returned).evaluations) = frame.iterations

\* three iterations in batches of two: the second batch is cut to one candidate
C4_Witness ==
    /\ pc = "done"
    /\ frame.start_len = 0
    /\ frame.iterations = 3
    /\ frame.batch_size = 2
    /\ Len(frame.candidates) = 1
    /\ Len(runner.history) = 3

MinimumAt(history, i) ==
    /\ \A j \in 1..Len(history) : history[i].objective <= history[j].objective
    /\ \A j \in 1..i - 1 : history[j].objective > history[i].objective

BestIsEarliestMinimum(history, best) ==
    IF history = <<>> THEN best = <<>>
    ELSE /\ best # <<>>
         /\ \E i \in 1..Len(history) : MinimumAt(history, i) /\ best[1] = history[i]

\* C5: at every point of a run `best` is the history entry with the minimum
\* objective, penalty entries included, the earliest of them on a tie, and None
\* exactly on an empty history; the returned history's best is that of its
\* evaluations.
C5_BestIsMinimum ==
    /\ BestIsEarliestMinimum(runner.history, Best(runner.history))
    /\ \A i \in 1..Len(returned) :
         returned[i].error = <<>> =>
             BestIsEarliestMinimum(returned[i].evaluations, returned[i].best)

\* the best entry is a penalty entry that a later result ties
C5_Witness ==
    /\ Len(runner.history) >= 2
    /\ IsPenalty(Best(runner.history)[1])
    /\ \E j \in 2..Len(runner.history) :
         /\ runner.history[j].objective = Best(runner.history)[1].objective
         /\ runner.history[j] # Best(runner.history)[1]

\* C6: run() raises ValueError when iterations < 0, batch_size <= 0, or strategy
\* or evaluator is None, and only then; the raising call makes no ask, no
\* evaluator call, no tell and no history append: runner and strategy are as
\* they were.
C6_FailFast ==
    [][frame'.call # frame.call =>
        LET invalid == \/ frame'.iterations < 0
                       \/ frame'.batch_size <= 0
                       \/ ~runner.strategy
                       \/ ~runner.evaluator
            raises == /\ pc' = "raised"
                      /\ frame'.error # <<>>
                      /\ frame'.error[1].type = "ValueError"
        IN  /\ invalid <=> raises
            /\ invalid => /\ runner' = runner
                          /\ strat' = strat
                          /\ callLog' = callLog
                          /\ evalLog' = evalLog]_vars

\* a call with batch_size = 0 raised on a runner that holds a result
C6_Witness ==
    /\ pc = "raised"
    /\ frame.batch_size = 0
    /\ frame.iterations >= 0
    /\ frame.error[1].type = "ValueError"
    /\ Len(runner.history) > 0

-----------------------------------------------------------------------------
(* Properties of PortfolioStrategy, under SpecPortfolio *)

SuccessfulAsks(log) == SelectSeq(log, LAMBDA e : e.op = "ask" /\ e.error = "")
DeliveredTells(log) == SelectSeq(log, LAMBDA e : e.op = "tell" /\ e.error = "")
OpenAsks(log) == Len(SuccessfulAsks(log)) - Len(DeliveredTells(log))

C8_RoundRobinDispatch ==
    [][(callLog' # callLog /\ Last(callLog').op = "ask") =>
        LET n == NumStrategies(strat)
            pointer == strat.next_strategy_index
            open == {d \in 0..n - 1 :
                        ~RandomIsConverged(strat.strategies[(pointer + d) % n])}
            entry == Last(callLog')
        IN  IF open = {}
            THEN entry.error = "RuntimeError" /\ entry.members = {}
            ELSE LET first == CHOOSE d \in open : \A e \in open : d <= e
                     chosen == (pointer + first) % n
                 IN  /\ entry.error = ""
                     /\ entry.members = {chosen}
                     /\ strat'.next_strategy_index = (chosen + 1) % n]_vars

\* member 0 is converged from the start and is skipped by the first ask; a later
\* ask finds every member converged and raises
C8_Witness ==
    /\ Len(callLog) >= 2
    /\ callLog[1].op = "ask" /\ callLog[1].members = {1}
    /\ Last(callLog).op = "ask" /\ Last(callLog).error = "RuntimeError"

Alternating(log) ==
    \A i \in 1..Len(log) : log[i].op = (IF i % 2 = 1 THEN "ask" ELSE "tell")

UniformCap(p, k) == \A i \in Members(p) : p.strategies[i].max_iterations = Some(k)

\* C10: n members each capped at k, driven by ask(), tell(), ask(), tell(), ...
\* for n*k cycles: no call fails, the portfolio is not converged after any cycle
\* before the last, and after the last it is converged with every member told
\* exactly k results.
C10_AlternatingCycles ==
    \A k \in 0..MaxCap :
        LET n == NumStrategies(strat)
        IN  (UniformCap(strat, k) /\ Alternating(callLog) /\ Len(callLog) <= 2 * n * k) =>
               /\ \A i \in 1..Len(callLog) : callLog[i].error = ""
               /\ (Len(callLog) % 2 = 0 /\ Len(callLog) < 2 * n * k) =>
                     ~PortfolioIsConverged(strat)
               /\ Len(callLog) = 2 * n * k =>
                     /\ PortfolioIsConverged(strat)
                     /\ \A i \in Members(strat) : Len(strat.strategies[i].history) = k

\* two members capped at 2, after the fourth cycle
C10_Witness ==
    /\ NumStrategies(strat) = 2
    /\ UniformCap(strat, 2)
    /\ Alternating(callLog)
    /\ Len(callLog) = 8
    /\ PortfolioIsConverged(strat)

-----------------------------------------------------------------------------
(* StagedStrategy: which stage a told result reaches *)

StagedTells == SelectSeq(callLog, LAMBDA e : e.op = "tell")

\* c_1 + ... + c_j, the caps of the first j stages
RECURSIVE CapSum(_, _)
CapSum(s, j) == IF j = 0 THEN 0 ELSE CapSum(s, j - 1) + s.stage_max_iterations[1][j - 1]

StagesNeverConverge(s) == \A i \in DOMAIN s.stages : s.stages[i].max_iterations = None

StartsWithAsk == callLog # <<>> => callLog[1].op = "ask"

\* C11: with caps (c_1, ..., c_n), stages that never converge on their own and a
\* call sequence that starts with ask(), the told results numbered
\* c_1+...+c_(j-1)+1 to c_1+...+c_j reach stage j and no other stage; when
\* c_1+...+c_n results have been told, stage i has been told c_i of them and
\* the staged history holds them all
C11_StageRouting ==
    (strat.stage_max_iterations # NoStageCaps /\ StagesNeverConverge(strat) /\ StartsWithAsk)
    => LET n == NumStages(strat)
           tells == StagedTells
       IN  /\ \A k \in 1..Len(tells) : \A j \in 0..n - 1 :
                 (CapSum(strat, j) < k /\ k <= CapSum(strat, j + 1))
                 => tells[k].members = {j}
           /\ Len(tells) = CapSum(strat, n)
              => /\ \A i \in 0..n - 1 :
                      Len(strat.stages[i].history) = strat.stage_max_iterations[1][i]
                 /\ Len(strat.history) = CapSum(strat, n)

\* four candidates asked first, then four results told, caps (2, 2)
C11_Witness ==
    /\ strat.stage_max_iterations # NoStageCaps
    /\ StagesNeverConverge(strat)
    /\ NumStages(strat) = 2
    /\ \A i \in 0..1 : strat.stage_max_iterations[1][i] = 2
    /\ Len(callLog) = 8
    /\ \A k \in 1..4 : callLog[k].op = "ask"
    /\ \A k \in 5..8 : callLog[k].op = "tell"
    /\ Len(strat.stages[0].history) = 2
    /\ Len(strat.stages[1].history) = 2

\* a stage reports is_converged: it has a max_iterations and was told that many
ReportsConverged(stage) == \E m \in stage.max_iterations : Len(stage.history) >= m

\* a stage used up the cap the StagedStrategy gives it
CapExhausted(s, i) ==
    /\ s.stage_max_iterations # NoStageCaps
    /\ Len(s.stages[i].history) >= s.stage_max_iterations[1][i]

\* C12: the staged strategy reports converged only when its current stage is the
\* last one and that stage itself reports converged; a stage before the last
\* that converged or used up its cap does not make the whole report converged
C12_ConvergedOnlyOnFinalStage ==
    strat.kind = "staged"
    => LET last == NumStages(strat) - 1
       IN  /\ StrategyIsConverged(strat)
              => /\ strat.current_stage_index = last
                 /\ ReportsConverged(strat.stages[last])
           /\ (/\ ~ReportsConverged(strat.stages[last])
               /\ \E i \in 0..last - 1 :
                     ReportsConverged(strat.stages[i]) \/ CapExhausted(strat, i))
              => ~StrategyIsConverged(strat)

\* the first of two stages used up its cap of one, the last one converged
C12_Witness ==
    /\ strat.kind = "staged"
    /\ NumStages(strat) = 2
    /\ strat.stages[0].max_iterations = None
    /\ CapExhausted(strat, 0)
    /\ strat.current_stage_index = 1
    /\ StrategyIsConverged(strat)

-----------------------------------------------------------------------------
(* Parameter. A number is a multiple of one half, held as its count of     *)
(* halves: 2 is 1.0, -1 is -0.5. Choice values are numbers as well.        *)

\* the content of an Optional that is not None
The(optional) == CHOOSE x \in optional : TRUE

\* Parameter(name, bounds, choices, transform, path); path is a tuple of segments
Parameter(name, bounds, choices, transform, path) ==
    [name |-> name, bounds |-> bounds, choices |-> choices,
     transform |-> transform, path |-> path]

ParameterPostInitRaises(p) ==
    \/ p.bounds = None /\ p.choices = None
    \/ p.bounds # None /\ p.choices # None
    \/ p.bounds # None /\ The(p.bounds)[1] > The(p.bounds)[2]
    \/ p.choices # None /\ Len(The(p.choices)) = 0

\* path.split(".") of resolved_path
ResolvedPath(p) == IF p.path # None THEN The(p.path) ELSE <<p.name>>

\* a call's outcome: the value returned, or the type of the exception raised
Ok(value) == [raised |-> "", value |-> value]
Err(type) == [raised |-> type, value |-> 0]

\* transform pairs (encode, decode): shift by 1.0, negation, and floor paired
\* with the identity, whose decode does not undo its encode
TransformEncode(transform, value) ==
    CASE transform = "shift" -> value + 2
      [] transform = "negate" -> 0 - value
      [] transform = "floor" -> 2 * (value \div 2)

TransformDecode(transform, value) ==
    CASE transform = "shift" -> value - 2
      [] transform = "negate" -> 0 - value
      [] transform = "floor" -> value

\* round(): to the nearest integer, a tie to the even one
PyRound(value) ==
    IF value % 2 = 0 THEN value \div 2
    ELSE LET below == (value - 1) \div 2
         IN  IF below % 2 = 0 THEN below ELSE below + 1

\* choices.index(value) counted from one
ChoicesIndexOneBased(choices, value) ==
    CHOOSE i \in 1..Len(choices) :
        choices[i] = value /\ \A j \in 1..i - 1 : choices[j] # value

\* choices.index(value): the first position holding the value, from zero
ChoicesIndex(choices, value) ==
    (CHOOSE i \in 1..Len(choices) :
        choices[i] = value /\ \A j \in 1..i - 1 : choices[j] # value) - 1

\* validate() with the lower bound left unchecked
ValidateRaisesAbove(p, value) ==
    IF p.choices # None
    THEN \A i \in 1..Len(The(p.choices)) : The(p.choices)[i] # value
    ELSE p.bounds = None \/ value > The(p.bounds)[2]

\* validate(value) raises ValueError
ValidateRaises(p, value) ==
    IF p.choices # None
    THEN \A i \in 1..Len(The(p.choices)) : The(p.choices)[i] # value
    ELSE \/ p.bounds = None
         \/ value < The(p.bounds)[1]
         \/ value > The(p.bounds)[2]

ToEncoded(p, value) ==
    IF ValidateRaises(p, value) THEN Err("ValueError")
    ELSE IF p.choices # None THEN Ok(2 * ChoicesIndex(The(p.choices), value))
    ELSE IF p.transform = None THEN Ok(value)
    ELSE Ok(TransformEncode(The(p.transform), value))

FromEncoded(p, value) ==
    IF p.choices # None
    THEN LET index == PyRound(value)
         IN  IF index < 0 \/ index >= Len(The(p.choices)) THEN Err("ValueError")
             ELSE Ok(The(p.choices)[index + 1])
    ELSE LET decoded == IF p.transform = None THEN value
                        ELSE TransformDecode(The(p.transform), value)
         IN  IF ValidateRaises(p, decoded) THEN Err("ValueError") ELSE Ok(decoded)

-----------------------------------------------------------------------------
(* ParameterSpace.encode and decode over a graph of objects. The heap is a  *)
(* sequence of nodes, a node's identity its position; a node is a dict or   *)
(* an object with attributes, its entries a set of <<segment, value>>       *)
(* pairs; a value is a number or a reference to a node.                     *)

Num(v) == [tag |-> "num", v |-> v]
Ref(id) == [tag |-> "ref", v |-> id]
Node(kind, fields) == [kind |-> kind, fields |-> fields]
EmptyDict == Node("dict", {})

\* the nodes reachable from a set of nodes
RECURSIVE Reach(_, _)
Reach(h, ids) ==
    LET more == ids \cup {e[2].v : e \in {x \in UNION {h[i].fields : i \in ids} :
                                            x[2].tag = "ref"}}
    IN  IF more = ids THEN ids ELSE Reach(h, more)

\* copy(base): a new root whose entries refer to the nodes of base
ShallowCopy(h, root) == [heap |-> Append(h, h[root]), root |-> Len(h) + 1]

\* deepcopy(base): every node gets a twin, references between twins mirror
\* those between the originals (every node of the heap is reachable from base
\* when decode is called)
DeepCopy(h, root) ==
    LET n == Len(h)
        twin(node) == Node(node.kind,
                           {<<e[1], IF e[2].tag = "ref" THEN Ref(e[2].v + n) ELSE e[2]>> :
                               e \in node.fields})
    IN  [heap |-> h \o [i \in 1..n |-> twin(h[i])], root |-> root + n]

\* _try_get_segment: None when the segment is absent or `current` is a number
TryGetSegment(h, current, segment) ==
    IF current.tag = "num" THEN None
    ELSE {e[2] : e \in {x \in h[current.v].fields : x[1] = segment}}

\* _get_segment
GetSegment(h, current, segment) ==
    LET found == TryGetSegment(h, current, segment)
    IN  IF found = None THEN [raised |-> "KeyError", value |-> Num(0)]
        ELSE [raised |-> "", value |-> The(found)]

RECURSIVE GetByPath(_, _, _)
GetByPath(h, current, parts) ==
    IF parts = <<>> THEN [raised |-> "", value |-> current]
    ELSE LET got == GetSegment(h, current, Head(parts))
         IN  IF got.raised # "" THEN got ELSE GetByPath(h, got.value, Tail(parts))

\* an assignment that replaces the node's entries by the one it writes
AssignSegmentClobber(h, current, segment, value) ==
    IF current.tag = "num" THEN [raised |-> "KeyError", heap |-> h]
    ELSE [raised |-> "", heap |-> [h EXCEPT ![current.v].fields = {<<segment, value>>}]]

\* _assign_segment: a number has neither items nor attributes
AssignSegment(h, current, segment, value) ==
    IF current.tag = "num" THEN [raised |-> "KeyError", heap |-> h]
    ELSE [raised |-> "",
          heap |-> [h EXCEPT ![current.v].fields =
                       {e \in @ : e[1] # segment} \cup {<<segment, value>>}]]

\* _set_by_path, from `current` on: the loop over parts[:-1] and the last assignment
RECURSIVE SetByPath(_, _, _, _)
SetByPath(h, current, parts, value) ==
    IF Len(parts) = 1 THEN AssignSegment(h, current, parts[1], value)
    ELSE LET found == TryGetSegment(h, current, parts[1])
             next_obj == Ref(Len(h) + 1)
             made == AssignSegment(Append(h, EmptyDict), current, parts[1], next_obj)
         IN  IF found # None THEN SetByPath(h, The(found), Tail(parts), value)
             ELSE IF made.raised # "" THEN [raised |-> made.raised, heap |-> h]
             ELSE SetByPath(made.heap, next_obj, Tail(parts), value)

\* encode(config): to_encoded of the value at each parameter's path; a node in
\* place of a number fails validate()
Encode(h, parameters, config) ==
    LET one(i) == LET got == GetByPath(h, Ref(config), ResolvedPath(parameters[i]))
                  IN  IF got.raised # "" THEN Err(got.raised)
                      ELSE IF got.value.tag = "ref" THEN Err("ValueError")
                      ELSE ToEncoded(parameters[i], got.value.v)
        failed == {i \in 1..Len(parameters) : one(i).raised # ""}
    IN  IF failed # {}
        THEN [raised |-> one(CHOOSE i \in failed : \A j \in failed : i <= j).raised,
              vector |-> <<>>]
        ELSE [raised |-> "", vector |-> [i \in 1..Len(parameters) |-> one(i).value]]

\* the for loop of decode, from parameter `index` on; `written` logs what
\* from_encoded handed out
RECURSIVE DecodeLoop(_, _, _, _, _, _)
DecodeLoop(h, config, parameters, encoded, index, written) ==
    IF index > Len(parameters)
    THEN [raised |-> "", heap |-> h, result |-> Some(config), written |-> written]
    ELSE LET value == FromEncoded(parameters[index], encoded[index])
             set == SetByPath(h, Ref(config), ResolvedPath(parameters[index]),
                              Num(value.value))
         IN  IF value.raised # ""
             THEN [raised |-> value.raised, heap |-> h, result |-> None,
                   written |-> written]
             ELSE IF set.raised # ""
             THEN [raised |-> set.raised, heap |-> set.heap, result |-> None,
                   written |-> written]
             ELSE DecodeLoop(set.heap, config, parameters, encoded, index + 1,
                             Append(written, value.value))

\* decode(encoded, base); base is None or Some(node)
Decode(h, parameters, encoded, base) ==
    IF Len(encoded) # Len(parameters)
    THEN [raised |-> "ValueError", heap |-> h, result |-> None, written |-> <<>>]
    ELSE LET copied == IF base # None THEN DeepCopy(h, The(base))
                       ELSE [heap |-> Append(h, EmptyDict), root |-> Len(h) + 1]
         IN  DecodeLoop(copied.heap, copied.root, parameters, encoded, 1, <<>>)

-----------------------------------------------------------------------------
(* Parameter and ParameterSpace called once on inputs of every shape *)

NoStrategy == [kind |-> "none"]

StrategyUnused ==
    /\ strat = NoStrategy
    /\ callLog = <<>>
    /\ outstanding = <<>>
    /\ RunnerUnused

\* bounds (lo, hi), in halves: 3 is 1.5
BoundEnds == {-2, 0, 3}
Transforms == {None, Some("shift"), Some("negate"), Some("floor")}
ChoiceTuples == {<<10>>, <<10, 20>>, <<20, 10, 30>>}

Parameters ==
    {Parameter("x", Some(<<lo, hi>>), None, transform, None) :
        lo \in BoundEnds, hi \in BoundEnds, transform \in Transforms}
    \cup {Parameter("kind", None, Some(choices), None, None) : choices \in ChoiceTuples}

Values == (-MaxValue..MaxValue) \cup {10, 20, 30}

InitParameter ==
    /\ \E p \in Parameters, value \in Values :
         /\ ~ParameterPostInitRaises(p)
         /\ calc = [op |-> "input", parameter |-> p, value |-> value, out |-> <<>>]
    /\ leaf = NoLeaf
    /\ heap = NoHeap
    /\ decodeCall = NoDecode
    /\ harness = NoHarness
    /\ logger = NoLogger
    /\ StrategyUnused

\* the config shapes of the tests: a dict of dicts, objects holding objects, a
\* flat dict, an empty dict, a dict whose two entries are one and the same
\* dict, and no base at all
BaseShapes ==
    {[heap |-> <<>>, base |-> None],
     [heap |-> <<EmptyDict>>, base |-> Some(1)],
     [heap |-> <<Node("dict", {<<"a", Ref(2)>>}), Node("dict", {<<"b", Num(2)>>})>>,
      base |-> Some(1)],
     [heap |-> <<Node("object", {<<"a", Ref(2)>>}), Node("object", {<<"b", Num(0)>>})>>,
      base |-> Some(1)],
     [heap |-> <<Node("dict", {<<"a", Num(2)>>, <<"b", Num(10)>>})>>, base |-> Some(1)],
     [heap |-> <<Node("dict", {<<"a", Ref(2)>>, <<"b", Ref(2)>>}),
                 Node("dict", {<<"b", Num(2)>>})>>,
      base |-> Some(1)]}

\* parameter tuples over the paths a, b and a.b
DecodeSpaces ==
    LET a == Parameter("a", Some(<<0, 6>>), None, None, None)
        b == Parameter("b", Some(<<0, 2>>), None, None, None)
        ab == Parameter("alpha", Some(<<0, 6>>), None, None, Some(<<"a", "b">>))
        bb == Parameter("beta", Some(<<0, 6>>), None, Some("shift"), Some(<<"b", "b">>))
        af == Parameter("a", Some(<<0, 6>>), None, Some("floor"), None)
        kind == Parameter("b", None, Some(<<10, 20>>), None, None)
    IN  {<<>>, <<a>>, <<ab>>, <<af>>, <<kind>>, <<ab, b>>, <<b, ab>>, <<a, ab>>,
         <<ab, a>>, <<ab, bb>>, <<a, kind>>, <<kind, a>>}

EncodedValues == {-1, 0, 2, 3, 8}

\* vectors of the right length, one too long, and encode(base) where it exists
EncodedChoices(shape, parameters) ==
    LET n == Len(parameters)
    IN  [1..n -> EncodedValues] \cup {[i \in 1..n + 1 |-> 0]}
        \cup (IF shape.base = None THEN {}
              ELSE LET encoded == Encode(shape.heap, parameters, The(shape.base))
                   IN  IF encoded.raised # "" THEN {} ELSE {encoded.vector})

InitDecode ==
    /\ \E shape \in BaseShapes, parameters \in DecodeSpaces :
       \E encoded \in EncodedChoices(shape, parameters) :
         /\ heap = shape.heap
         /\ decodeCall = [pc |-> "input", parameters |-> parameters,
                          encoded |-> encoded, base |-> shape.base,
                          before |-> shape.heap, raised |-> "", result |-> None,
                          written |-> <<>>]
    /\ leaf = NoLeaf
    /\ calc = NoCalc
    /\ harness = NoHarness
    /\ logger = NoLogger
    /\ StrategyUnused

strategyVars == <<strat, callLog, outstanding, runner, frame, pc, evalLog, returned,
                  evaluatorMemo, firstRun>>

CallToEncoded ==
    /\ calc.op = "input"
    /\ calc' = [calc EXCEPT !.op = "to_encoded",
                            !.out = <<ToEncoded(calc.parameter, calc.value)>>]
    /\ UNCHANGED <<strategyVars, leaf, heap, decodeCall, harness, logger>>

CallFromEncoded ==
    /\ calc.op = "input"
    /\ calc' = [calc EXCEPT !.op = "from_encoded",
                            !.out = <<FromEncoded(calc.parameter, calc.value)>>]
    /\ UNCHANGED <<strategyVars, leaf, heap, decodeCall, harness, logger>>

\* from_encoded(to_encoded(value))
CallRoundTrip ==
    /\ calc.op = "input"
    /\ LET encoded == ToEncoded(calc.parameter, calc.value)
       IN  calc' = [calc EXCEPT
                      !.op = "round_trip",
                      !.out = IF encoded.raised # "" THEN <<encoded>>
                              ELSE <<encoded, FromEncoded(calc.parameter, encoded.value)>>]
    /\ UNCHANGED <<strategyVars, leaf, heap, decodeCall, harness, logger>>

CallDecode ==
    /\ decodeCall.pc = "input"
    /\ LET done == Decode(heap, decodeCall.parameters, decodeCall.encoded,
                          decodeCall.base)
       IN  /\ heap' = done.heap
           /\ decodeCall' = [decodeCall EXCEPT !.pc = "done", !.raised = done.raised,
                                               !.result = done.result,
                                               !.written = done.written]
    /\ UNCHANGED <<strategyVars, leaf, calc, harness, logger>>

NextParameterSpace == CallToEncoded \/ CallFromEncoded \/ CallRoundTrip \/ CallDecode

SpecParameterSpace == (InitParameter \/ InitDecode) /\ [][NextParameterSpace]_vars

-----------------------------------------------------------------------------
(* ParameterSpace: what decode leaves alone, round trips, rejected values *)

\* C13: decode(encoded, base) leaves every node of base as it was before the
\* call, whether it returns or raises part-way; what it returns is not base
\* and reaches no node that base reaches
C13_DecodeLeavesBase ==
    decodeCall.pc = "done"
    => LET based == Reach(decodeCall.before, decodeCall.base)
       IN  /\ \A id \in based : heap[id] = decodeCall.before[id]
           /\ decodeCall.result # None
              => /\ The(decodeCall.result) \notin based
                 /\ Reach(heap, decodeCall.result) \cap Reach(heap, based) = {}

\* a first parameter was written into the copy, a later one was rejected
C13_Witness ==
    /\ decodeCall.pc = "done"
    /\ decodeCall.base # None
    /\ decodeCall.raised = "ValueError"
    /\ Len(decodeCall.written) >= 1
    /\ \E id \in DOMAIN heap : id \notin DOMAIN decodeCall.before /\ heap[id] # EmptyDict
                                /\ \A b \in DOMAIN decodeCall.before :
                                      heap[id] # decodeCall.before[b]

\* the transform's decode undoes its encode on every value
ExactInverse(transform) ==
    \A v \in -MaxValue..MaxValue : TransformDecode(transform, TransformEncode(transform, v)) = v

Invertible(p) == p.transform = None \/ ExactInverse(The(p.transform))

\* the value lies within the bounds, or is one of the choices
InDomain(p, value) ==
    IF p.choices # None
    THEN \E i \in 1..Len(The(p.choices)) : The(p.choices)[i] = value
    ELSE The(p.bounds)[1] <= value /\ value <= The(p.bounds)[2]

\* ==, on dicts and on objects compared field by field
RECURSIVE DeepEqual(_, _, _)
DeepEqual(h, x, y) ==
    IF x.tag = "num" \/ y.tag = "num" THEN x = y
    ELSE /\ h[x.v].kind = h[y.v].kind
         /\ {e[1] : e \in h[x.v].fields} = {e[1] : e \in h[y.v].fields}
         /\ \A e \in h[x.v].fields, f \in h[y.v].fields :
               e[1] = f[1] => DeepEqual(h, e[2], f[2])

\* C14: from_encoded(to_encoded(v)) gives v back for a bounded parameter whose
\* transform is absent or exactly invertible and v within the bounds, and for a
\* categorical parameter and v one of its choices; decode(encode(config),
\* base=config) returns an object equal to config
C14_RoundTrip ==
    /\ (/\ calc.op = "round_trip"
        /\ Invertible(calc.parameter)
        /\ InDomain(calc.parameter, calc.value))
       => /\ Len(calc.out) = 2
          /\ calc.out[2] = Ok(calc.value)
    /\ (/\ decodeCall.pc = "done"
        /\ decodeCall.base # None
        /\ \A i \in 1..Len(decodeCall.parameters) : Invertible(decodeCall.parameters[i])
        /\ LET encoded == Encode(decodeCall.before, decodeCall.parameters,
                                 The(decodeCall.base))
           IN  encoded.raised = "" /\ encoded.vector = decodeCall.encoded)
       => /\ decodeCall.raised = ""
          /\ DeepEqual(heap, Ref(The(decodeCall.result)), Ref(The(decodeCall.base)))

\* two parameters, one of them transformed, decoded from encode(base)
C14_Witness ==
    /\ decodeCall.pc = "done"
    /\ decodeCall.base # None
    /\ Len(decodeCall.parameters) = 2
    /\ \E i \in 1..2 : decodeCall.parameters[i].transform # None
    /\ Encode(decodeCall.before, decodeCall.parameters, The(decodeCall.base)) =
          [raised |-> "", vector |-> decodeCall.encoded]
    /\ decodeCall.raised = ""

\* the integer nearest to a number, the even one when two are equally near
NearestIndex(value) ==
    CHOOSE k \in -MaxValue - 30..MaxValue + 30 :
        \/ 2 * k - value \in {0}
        \/ 2 * k - value \in {-1, 1} /\ k % 2 = 0

\* C15: to_encoded raises ValueError for a value outside the bounds or not among
\* the choices; from_encoded raises ValueError when the inverse-transformed value
\* is outside the bounds or the rounded index is not a position of choices;
\* so whatever from_encoded or decode hands out is within bounds or a choice
C15_OutOfRangeRejected ==
    /\ calc.op = "to_encoded"
       => (~InDomain(calc.parameter, calc.value) => calc.out[1] = Err("ValueError"))
    /\ calc.op = "from_encoded"
       => LET p == calc.parameter
              inverse == IF p.transform = None THEN calc.value
                         ELSE TransformDecode(The(p.transform), calc.value)
          IN  /\ (p.bounds # None /\ ~InDomain(p, inverse))
                 => calc.out[1] = Err("ValueError")
              /\ (p.choices # None /\ NearestIndex(calc.value) \notin
                                         0..Len(The(p.choices)) - 1)
                 => calc.out[1] = Err("ValueError")
              /\ calc.out[1].raised = "" => InDomain(p, calc.out[1].value)
    /\ decodeCall.pc = "done"
       => \A i \in 1..Len(decodeCall.written) :
             InDomain(decodeCall.parameters[i], decodeCall.written[i])

\* an encoded value within the bounds whose inverse transform is not
C15_Witness ==
    /\ calc.op = "from_encoded"
    /\ calc.parameter.transform # None
    /\ InDomain(calc.parameter, calc.value)
    /\ calc.out[1] = Err("ValueError")

-----------------------------------------------------------------------------
(* RandomStrategy, SobolStrategy and CMAESStrategy over a parameter space.  *)
(* A candidate's theta is a dict, kept as a set of <<name, value>> pairs.   *)

\* theta[name] = value
ThetaSet(theta, name, value) == {e \in theta : e[1] # name} \cup {<<name, value>>}

\* Parameter(name="x", bounds=(0.0, 1.0))
DefaultSpace == <<Parameter("x", Some(<<0, 2>>), None, None, None)>>

\* the strategy after its constructor; `built` names the exception __post_init__
\* raised, in which case no instance exists
LeafStrategy(kind, parameter_space, seed, built) ==
    [kind |-> kind, parameter_space |-> parameter_space, seed |-> seed,
     max_iterations |-> None, history |-> <<>>, draws |-> 0, built |-> built]

\* RandomStrategy.__post_init__: the default space stands in for None
RandomOverSpace(parameter_space, seed) ==
    LeafStrategy("random",
                 IF parameter_space = None THEN DefaultSpace ELSE The(parameter_space),
                 seed, "")

\* SobolStrategy.__post_init__; `available` says whether scipy was importable
SobolOverSpace(parameter_space, seed, available) ==
    LeafStrategy("sobol", parameter_space, seed,
                 IF ~available THEN "RuntimeError" ELSE "")

\* CMAESStrategy.__post_init__; `available` says whether cma was importable
CMAESOverSpace(parameter_space, seed, available) ==
    LeafStrategy("cmaes", parameter_space, seed,
        IF ~available THEN "RuntimeError"
        ELSE IF \E i \in 1..Len(parameter_space) : parameter_space[i].bounds = None
        THEN "ValueError"
        ELSE IF \E i \in 1..Len(parameter_space) :
                   The(parameter_space[i].bounds)[1] = The(parameter_space[i].bounds)[2]
        THEN "ValueError"
        ELSE "")

\* self._rng.uniform(lower, upper), the draw made at generator position n
RngUniformIn(seed, n, lower, upper) ==
    lower + (RngState(seed, n) * (upper - lower)) \div 15

\* RandomStrategy.ask, the dict comprehension from parameter `index` on:
\* parameter.bounds[0] on a parameter without bounds is a TypeError
RECURSIVE RandomAskFrom(_, _, _, _)
RandomAskFrom(s, index, draws, theta) ==
    IF index > Len(s.parameter_space)
    THEN [raised |-> "", theta |-> theta, draws |-> draws]
    ELSE LET parameter == s.parameter_space[index]
         IN  IF parameter.bounds = None
             THEN [raised |-> "TypeError", theta |-> {}, draws |-> draws]
             ELSE RandomAskFrom(s, index + 1, draws + 1,
                      ThetaSet(theta, parameter.name,
                               RngUniformIn(s.seed, draws, The(parameter.bounds)[1],
                                            The(parameter.bounds)[2])))

\* SobolStrategy.ask: one point of the engine, scaled parameter by parameter;
\* unpacking the bounds of a parameter without bounds is a TypeError
RECURSIVE SobolAskFrom(_, _, _)
SobolAskFrom(s, index, theta) ==
    IF index > Len(s.parameter_space)
    THEN [raised |-> "", theta |-> theta, draws |-> s.draws + 1]
    ELSE LET parameter == s.parameter_space[index]
             lower == The(parameter.bounds)[1]
             upper == The(parameter.bounds)[2]
         IN  IF parameter.bounds = None
             THEN [raised |-> "TypeError", theta |-> {}, draws |-> s.draws + 1]
             ELSE SobolAskFrom(s, index + 1,
                      ThetaSet(theta, parameter.name,
                               lower + ((upper - lower) *
                                        RngState(s.seed + index, s.draws)) \div 16))

\* the proposal is handed on as it comes
ClipNot(value, lower, upper) == value

\* min(max(value, lower), upper)
Clip(value, lower, upper) ==
    LET raised == IF value > lower THEN value ELSE lower
    IN  IF raised < upper THEN raised ELSE upper

\* CMAESStrategy.ask on the point `encoded` the optimizer proposes
RECURSIVE CMAESAskFrom(_, _, _, _)
CMAESAskFrom(s, encoded, index, theta) ==
    IF index > Len(s.parameter_space)
    THEN [raised |-> "", theta |-> theta, draws |-> s.draws + 1]
    ELSE LET parameter == s.parameter_space[index]
         IN  IF parameter.bounds = None
             THEN [raised |-> "ValueError", theta |-> {}, draws |-> s.draws + 1]
             ELSE CMAESAskFrom(s, encoded, index + 1,
                      ThetaSet(theta, parameter.name,
                               Clip(encoded[index], The(parameter.bounds)[1],
                                    The(parameter.bounds)[2])))

\* ask() of the variant: what it returns or raises, and the generator after it
LeafAskOutcome(s, encoded) ==
    CASE s.kind = "random" -> RandomAskFrom(s, 1, s.draws, {})
      [] s.kind = "sobol" -> SobolAskFrom(s, 1, {})
      [] s.kind = "cmaes" -> CMAESAskFrom(s, encoded, 1, {})

-----------------------------------------------------------------------------
(* Leaf strategies driven directly; two RandomStrategy instances side by side *)

\* spaces over x in [0, 1], y in [-1, 1], a degenerate d and a categorical lens
LeafSpaces ==
    LET x == Parameter("x", Some(<<0, 2>>), None, None, None)
        y == Parameter("y", Some(<<-2, 2>>), None, None, None)
        d == Parameter("d", Some(<<1, 1>>), None, None, None)
        lens == Parameter("lens", None, Some(<<10, 20>>), None, None)
    IN  {<<x>>, <<x, y>>, <<d>>, <<x, d>>, <<lens>>, <<x, lens>>, <<lens, y>>}

LeafSeeds == {1, 2}

\* the points the optimizer may propose for a parameter: below its bounds,
\* within them, above them
Proposals(parameter_space) ==
    {encoded \in [1..Len(parameter_space) -> -MaxValue..MaxValue] :
        \A i \in 1..Len(parameter_space) :
            encoded[i] \in {The(parameter_space[i].bounds)[1] - 1,
                            The(parameter_space[i].bounds)[1] + 1,
                            The(parameter_space[i].bounds)[2] + 1}}

InitLeaf ==
    /\ \/ \E parameter_space \in {None} \cup {Some(sp) : sp \in LeafSpaces} :
          \E first \in LeafSeeds, second \in LeafSeeds :
            leaf = [instances |-> <<RandomOverSpace(parameter_space, first),
                                    RandomOverSpace(parameter_space, second)>>,
                    asks |-> <<<<>>, <<>>>>, calls |-> 0]
       \/ \E parameter_space \in LeafSpaces, seed \in LeafSeeds, available \in BOOLEAN :
            leaf = [instances |-> <<SobolOverSpace(parameter_space, seed, available)>>,
                    asks |-> <<<<>>>>, calls |-> 0]
       \/ \E parameter_space \in LeafSpaces, available \in BOOLEAN :
            leaf = [instances |-> <<CMAESOverSpace(parameter_space, 1, available)>>,
                    asks |-> <<<<>>>>, calls |-> 0]
    /\ calc = NoCalc
    /\ heap = NoHeap
    /\ decodeCall = NoDecode
    /\ harness = NoHarness
    /\ logger = NoLogger
    /\ StrategyUnused

\* ask() on instance i; only the optimizer behind CMAESStrategy has a say in
\* the point proposed
LeafAsk(i) ==
    /\ leaf.calls < MaxLeafCalls
    /\ leaf.instances[i].built = ""
    /\ \E encoded \in IF leaf.instances[i].kind = "cmaes"
                      THEN Proposals(leaf.instances[i].parameter_space)
                      ELSE {<<>>} :
         LET outcome == LeafAskOutcome(leaf.instances[i], encoded)
         IN  leaf' = [leaf EXCEPT
                        !.instances[i].draws = outcome.draws,
                        !.asks[i] = Append(@, [raised |-> outcome.raised,
                                               theta |-> outcome.theta]),
                        !.calls = @ + 1]
    /\ UNCHANGED <<strategyVars, calc, heap, decodeCall, harness, logger>>

\* tell() on instance i: the result is appended to the told history
LeafTell(i) ==
    /\ leaf.calls < MaxLeafCalls
    /\ leaf.instances[i].built = ""
    /\ leaf' = [leaf EXCEPT
                  !.instances[i] = RandomTell(@, TestResult(0, Len(@.history))),
                  !.calls = @ + 1]
    /\ UNCHANGED <<strategyVars, calc, heap, decodeCall, harness, logger>>

NextLeaf == \E i \in DOMAIN leaf.instances : LeafAsk(i) \/ LeafTell(i)

SpecLeaf == InitLeaf /\ [][NextLeaf]_vars

\* C16: two RandomStrategy instances built with one seed and one parameter
\* space give equal outcomes for their i-th ask(), however many results each
\* was told and whenever
C16_RandomDeterminism ==
    (/\ Len(leaf.instances) = 2
     /\ leaf.instances[1].seed = leaf.instances[2].seed
     /\ leaf.instances[1].parameter_space = leaf.instances[2].parameter_space)
    => \A k \in DOMAIN leaf.asks[1] \cap DOMAIN leaf.asks[2] :
          leaf.asks[1][k] = leaf.asks[2][k]

\* one instance was told between its asks, its twin never; the draws differ
\* from one ask to the next
C16_Witness ==
    /\ Len(leaf.instances) = 2
    /\ leaf.instances[1].seed = leaf.instances[2].seed
    /\ Len(leaf.asks[1]) = 2
    /\ Len(leaf.asks[2]) = 2
    /\ leaf.asks[1][1].raised = ""
    /\ leaf.asks[1][1] # leaf.asks[1][2]
    /\ Len(leaf.instances[1].history) = 1
    /\ Len(leaf.instances[2].history) = 0

\* C17, as claimed: every ask() of a RandomStrategy returns a candidate with
\* one entry per parameter of its space, a numeric one within its bounds, a
\* categorical one among its choices; spaces mixing both kinds included
C17_AskWithinSpace ==
    \A i \in DOMAIN leaf.instances :
        leaf.instances[i].kind = "random"
        => \A k \in DOMAIN leaf.asks[i] :
              LET parameter_space == leaf.instances[i].parameter_space
                  outcome == leaf.asks[i][k]
              IN  /\ outcome.raised = ""
                  /\ {e[1] : e \in outcome.theta} =
                        {parameter_space[j].name : j \in DOMAIN parameter_space}
                  /\ Cardinality(outcome.theta) = Len(parameter_space)
                  /\ \A j \in DOMAIN parameter_space : \A e \in outcome.theta :
                        e[1] = parameter_space[j].name
                        => InDomain(parameter_space[j], e[2])

\* C18, as claimed: no SobolStrategy instance exists over a space with a
\* categorical parameter, and ask() is never reached on one
C18_SobolRejectsCategorical ==
    \A i \in DOMAIN leaf.instances :
        (/\ leaf.instances[i].kind = "sobol"
         /\ \E j \in DOMAIN leaf.instances[i].parameter_space :
               leaf.instances[i].parameter_space[j].bounds = None)
        => /\ leaf.instances[i].built # ""
           /\ leaf.asks[i] = <<>>

\* C19: every value of every candidate CMAESStrategy.ask() returns lies within
\* the inclusive bounds of its parameter, whatever the optimizer proposed and
\* whether or not results were told in between
C19_CMAESWithinBounds ==
    \A i \in DOMAIN leaf.instances :
        leaf.instances[i].kind = "cmaes"
        => \A k \in DOMAIN leaf.asks[i] :
              LET parameter_space == leaf.instances[i].parameter_space
              IN  /\ leaf.asks[i][k].raised = ""
                  /\ \A j \in DOMAIN parameter_space : \E e \in leaf.asks[i][k].theta :
                        /\ e[1] = parameter_space[j].name
                        /\ The(parameter_space[j].bounds)[1] <= e[2]
                        /\ e[2] <= The(parameter_space[j].bounds)[2]

\* two parameters, asks with a tell in between, values brought back to both ends
C19_Witness ==
    /\ leaf.instances[1].kind = "cmaes"
    /\ Len(leaf.instances[1].parameter_space) = 2
    /\ Len(leaf.asks[1]) = 3
    /\ Len(leaf.instances[1].history) = 1
    /\ \E e \in leaf.asks[1][1].theta : e[2] = The(leaf.instances[1].parameter_space[1].bounds)[1]
    /\ \E e \in leaf.asks[1][3].theta : e[2] = The(leaf.instances[1].parameter_space[2].bounds)[2]

-----------------------------------------------------------------------------
(* SweepSpec grid sampling. The parameters mapping is a dict: a sequence of *)
(* <<name, values>> entries in insertion order, no name twice. A sample     *)
(* point is a dict as well, its <<name, value>> entries in key order.       *)

\* the names in use, in the order sorted() gives strings
NameOrder == <<"a", "b", "c">>

Rank(name) == CHOOSE i \in 1..Len(NameOrder) : NameOrder[i] = name

Keys(parameters) == {parameters[i][1] : i \in 1..Len(parameters)}

\* parameters[name]
Lookup(parameters, name) ==
    (CHOOSE e \in {parameters[i] : i \in 1..Len(parameters)} : e[1] = name)[2]

\* sorted(keys): the least key, then the others sorted
RECURSIVE Sorted(_)
Sorted(keys) ==
    IF keys = {} THEN <<>>
    ELSE LET least == CHOOSE k \in keys : \A other \in keys : Rank(k) <= Rank(other)
         IN  <<least>> \o Sorted(keys \ {least})

\* the keys as the mapping iterates them
StableParameterNamesAsInserted(parameters) ==
    [i \in 1..Len(parameters) |-> parameters[i][1]]

\* _stable_parameter_names
StableParameterNames(parameters) == Sorted(Keys(parameters))

\* itertools.product(*pools): every row so far is extended by every element
\* of the next pool, the rows of one prefix staying together
RECURSIVE Product(_, _, _)
Product(pools, i, rows) ==
    IF i > Len(pools) THEN rows
    ELSE LET pool == pools[i]
         IN  Product(pools, i + 1,
                     [k \in 1..Len(rows) * Len(pool) |->
                         Append(rows[((k - 1) \div Len(pool)) + 1],
                                pool[((k - 1) % Len(pool)) + 1])])

\* _sample_grid
SampleGrid(parameters) ==
    LET names == StableParameterNames(parameters)
        values == [i \in 1..Len(names) |-> Lookup(parameters, names[i])]
        rows == Product(values, 1, <<<<>>>>)
    IN  [k \in 1..Len(rows) |-> [i \in 1..Len(names) |-> <<names[i], rows[k][i]>>]]

\* the value lists a parameter may carry
ValueLists == {<<>>, <<0>>, <<0, 2>>, <<2, 0>>, <<0, 1, 2>>}

\* every mapping over some of the names, in every insertion order
NameOrderSet == {NameOrder[i] : i \in 1..Len(NameOrder)}

GridInputs ==
    UNION {{parameters \in [1..n -> NameOrderSet \X ValueLists] :
               \A i \in 1..n, j \in 1..n : i # j => parameters[i][1] # parameters[j][1]} :
           n \in 0..Len(NameOrder)}

InitSweep ==
    /\ \E parameters \in GridInputs :
         calc = [op |-> "input", parameters |-> parameters, out |-> <<>>]
    /\ leaf = NoLeaf
    /\ heap = NoHeap
    /\ decodeCall = NoDecode
    /\ harness = NoHarness
    /\ logger = NoLogger
    /\ StrategyUnused

CallSampleGrid ==
    /\ calc.op = "input"
    /\ calc' = [calc EXCEPT !.op = "grid", !.out = SampleGrid(calc.parameters)]
    /\ UNCHANGED <<strategyVars, leaf, heap, decodeCall, harness, logger>>

NextSweep == CallSampleGrid

SpecSweep == InitSweep /\ [][NextSweep]_vars

\* the number of rows a suffix of the sorted names spans
RECURSIVE Span(_, _, _)
Span(parameters, names, i) ==
    IF i > Len(names) THEN 1
    ELSE Len(Lookup(parameters, names[i])) * Span(parameters, names, i + 1)

\* C20: grid sampling returns as many points as the product of the list
\* lengths; point k holds, for the i-th name in sorted order, the element of that
\* name's list found by counting k in mixed radix, the last name moving fastest;
\* so every combination occurs once per position and nothing depends on the
\* order in which the mapping was filled
C20_GridIsSortedProduct ==
    calc.op = "grid"
    => LET parameters == calc.parameters
           names == SelectSeq(NameOrder, LAMBDA name : name \in Keys(parameters))
           n == Len(names)
       IN  /\ Len(calc.out) = Span(parameters, names, 1)
           /\ \A k \in 1..Len(calc.out) :
                 /\ Len(calc.out[k]) = n
                 /\ \A i \in 1..n :
                       LET list == Lookup(parameters, names[i])
                           digit == ((k - 1) \div Span(parameters, names, i + 1)) % Len(list)
                       IN  calc.out[k][i] = <<names[i], list[digit + 1]>>

\* b was inserted before a, two values each: four points, a first in each
C20_Witness ==
    /\ calc.op = "grid"
    /\ Len(calc.parameters) = 2
    /\ calc.parameters[1] = <<"b", <<0, 2>>>>
    /\ calc.parameters[2] = <<"a", <<0, 2>>>>
    /\ calc.out = << <<<<"a", 0>>, <<"b", 0>>>>, <<<<"a", 0>>, <<"b", 2>>>>,
                     <<<<"a", 2>>, <<"b", 0>>>>, <<<<"a", 2>>, <<"b", 2>>>> >>

-----------------------------------------------------------------------------
(* SweepSpec.sample. A SweepSpec holds the parameters mapping, the mode, the   *)
(* optional num_samples and the explicit candidates. Sobol mode needs scipy,   *)
(* which the repository does not ship: no sweep here is built in that mode.    *)

MaxSamples == 2
MaxSampleCalls == 2

SweepSpec(parameters, mode, num_samples, candidates) ==
    [parameters |-> parameters, mode |-> mode, num_samples |-> num_samples,
     candidates |-> candidates]

\* str.lower() on the mode strings in use
Lower(mode) == IF mode = "Random" THEN "random" ELSE mode

RECURSIVE SeqMin(_, _, _)
SeqMin(values, i, held) ==
    IF i > Len(values) THEN held
    ELSE SeqMin(values, i + 1, IF values[i] < held THEN values[i] ELSE held)

RECURSIVE SeqMax(_, _, _)
SeqMax(values, i, held) ==
    IF i > Len(values) THEN held
    ELSE SeqMax(values, i + 1, IF values[i] > held THEN values[i] ELSE held)

\* _bounds without its width test
BoundsAnyWidth(values) ==
    IF Len(values) < 2 THEN Err("ValueError")
    ELSE Ok(<<SeqMin(values, 2, values[1]), SeqMax(values, 2, values[1])>>)

\* _bounds
Bounds(values) ==
    IF Len(values) < 2 THEN Err("ValueError")
    ELSE LET low == SeqMin(values, 2, values[1])
             high == SeqMax(values, 2, values[1])
         IN  IF low = high THEN Err("ValueError") ELSE Ok(<<low, high>>)

\* _resolve_num_samples
ResolveNumSamples(num_samples) ==
    IF num_samples = None THEN Err("ValueError")
    ELSE IF The(num_samples) <= 0 THEN Err("ValueError")
    ELSE Ok(The(num_samples))

\* _sample_random: the ranges of all names first, then n, then one generator
\* for the call; point k takes its coordinates in name order from draws
\* (k-1)*d .. k*d-1 of that generator
SampleRandom(parameters, seed, num_samples) ==
    LET names == StableParameterNames(parameters)
        d == Len(names)
        ranges == [i \in 1..d |-> Bounds(Lookup(parameters, names[i]))]
        n == ResolveNumSamples(num_samples)
    IN  IF \E i \in 1..d : ranges[i].raised # "" THEN Err("ValueError")
        ELSE IF n.raised # "" THEN Err(n.raised)
        ELSE Ok([k \in 1..n.value |->
                   [i \in 1..d |->
                      <<names[i],
                        RngUniformIn(seed, (k - 1) * d + (i - 1),
                                     ranges[i].value[1], ranges[i].value[2])>>]])

\* SweepSpec.sample
Sample(spec, seed) ==
    IF spec.candidates # <<>> THEN Ok(spec.candidates)
    ELSE LET mode == Lower(spec.mode)
         IN  CASE mode = "grid" -> Ok(SampleGrid(spec.parameters))
               [] mode = "random" -> SampleRandom(spec.parameters, seed, spec.num_samples)
               [] OTHER -> Err("ValueError")

\* the value lists of a sweep over ranges: one value, zero width, two ends in
\* either order, three values
RangeLists == {<<0>>, <<1, 1>>, <<0, 2>>, <<3, 1>>, <<0, 1, 2>>}

SampleNames == {"a", "b"}

SampleParameters ==
    UNION {{parameters \in [1..n -> SampleNames \X RangeLists] :
               \A i \in 1..n, j \in 1..n : i # j => parameters[i][1] # parameters[j][1]} :
           n \in 0..Cardinality(SampleNames)}

Modes == {"grid", "random", "Random", "lhs"}

NumSamples == {None} \cup {Some(k) : k \in -1..MaxSamples}

\* no candidates, or the single explicit point {"a": 1.0}
CandidateTuples == {<<>>, << <<<<"a", 1>>>> >>}

SampleSeeds == {1, 2}

SweepSpecs ==
    {SweepSpec(parameters, mode, num_samples, candidates) :
        parameters \in SampleParameters, mode \in Modes,
        num_samples \in NumSamples, candidates \in CandidateTuples}

InitSample ==
    /\ \E spec \in SweepSpecs : calc = [op |-> "spec", spec |-> spec, calls |-> <<>>]
    /\ leaf = NoLeaf
    /\ heap = NoHeap
    /\ decodeCall = NoDecode
    /\ harness = NoHarness
    /\ logger = NoLogger
    /\ StrategyUnused

\* spec.sample(seed=seed), its outcome kept with the seed
CallSample ==
    /\ calc.op = "spec"
    /\ Len(calc.calls) < MaxSampleCalls
    /\ \E seed \in SampleSeeds :
         LET out == Sample(calc.spec, seed)
         IN  calc' = [calc EXCEPT !.calls =
                        Append(@, [seed |-> seed, raised |-> out.raised,
                                   points |-> IF out.raised = "" THEN out.value ELSE <<>>])]
    /\ UNCHANGED <<strategyVars, leaf, heap, decodeCall, harness, logger>>

NextSample == CallSample

SpecSample == InitSample /\ [][NextSample]_vars

\* some range of the mapping cannot be sampled: fewer than two values, or all
\* of them equal
BadRange(parameters) ==
    \E i \in 1..Len(parameters) :
        LET values == parameters[i][2]
        IN  \/ Len(values) < 2
            \/ \A j \in 1..Len(values) : values[j] = values[1]

\* what a sample() call in random mode owes its caller
RandomModeContract(spec, call) ==
    IF \/ spec.num_samples = None
       \/ The(spec.num_samples) <= 0
       \/ BadRange(spec.parameters)
    THEN call.raised = "ValueError"
    ELSE /\ call.raised = ""
         /\ Len(call.points) = The(spec.num_samples)
         /\ \A k \in 1..Len(call.points) :
               LET point == call.points[k]
               IN  /\ Len(point) = Len(spec.parameters)
                   /\ \A i \in 1..Len(spec.parameters) :
                         LET name == spec.parameters[i][1]
                             values == spec.parameters[i][2]
                         IN  \E e \in 1..Len(point) :
                               /\ point[e][1] = name
                               /\ \E j \in 1..Len(values) : values[j] <= point[e][2]
                               /\ \E j \in 1..Len(values) : point[e][2] <= values[j]

SameSeedSamePoints ==
    \A c1 \in 1..Len(calc.calls), c2 \in 1..Len(calc.calls) :
        calc.calls[c1].seed = calc.calls[c2].seed => calc.calls[c1] = calc.calls[c2]

\* C21 as stated: every sample() of a spec whose mode is random raises
\* ValueError on a missing or non-positive num_samples or an unusable range, and
\* otherwise returns num_samples in-range points, equal for equal seeds
C21_RandomModeAnySpec ==
    (calc.op = "spec" /\ Lower(calc.spec.mode) = "random")
    => /\ \A c \in 1..Len(calc.calls) : RandomModeContract(calc.spec, calc.calls[c])
       /\ SameSeedSamePoints

\* C21: a spec in random mode that carries no explicit candidates raises
\* ValueError from sample() when num_samples is None or <= 0 or some range has
\* fewer than two values or zero width; otherwise sample() returns num_samples
\* points with one value per parameter inside that parameter's [min, max], and
\* two calls with one seed return equal sequences. A spec that carries
\* candidates returns them, whatever its mode, num_samples and ranges
C21_RandomMode ==
    calc.op = "spec"
    => /\ (Lower(calc.spec.mode) = "random" /\ calc.spec.candidates = <<>>)
          => /\ \A c \in 1..Len(calc.calls) : RandomModeContract(calc.spec, calc.calls[c])
             /\ SameSeedSamePoints
       /\ calc.spec.candidates # <<>>
          => \A c \in 1..Len(calc.calls) :
                calc.calls[c].raised = "" /\ calc.calls[c].points = calc.spec.candidates

\* two calls with seed 1 on ranges a: (3, 1), b: (0, 2) with num_samples 2
C21_Witness ==
    /\ calc.op = "spec"
    /\ calc.spec.mode = "random"
    /\ calc.spec.candidates = <<>>
    /\ calc.spec.num_samples = Some(2)
    /\ calc.spec.parameters = << <<"b", <<0, 2>>>>, <<"a", <<3, 1>>>> >>
    /\ Len(calc.calls) = 2
    /\ calc.calls[1].seed = 1 /\ calc.calls[2].seed = 1
    /\ Len(calc.calls[1].points) = 2
    /\ calc.calls[1].points[1][1][1] = "a"

\* random mode, num_samples None, a zero-width range, and one candidate
C21_CandidatesWitness ==
    /\ calc.op = "spec"
    /\ calc.spec.mode = "random"
    /\ calc.spec.candidates # <<>>
    /\ calc.spec.num_samples = None
    /\ Len(calc.calls) = 1
    /\ calc.calls[1].raised = ""

-----------------------------------------------------------------------------
(* InMemoryTestHarness.run_sweep. One step per adapter call: the adapter is    *)
(* free to return any objective or to raise. metric_spec is the empty tuple,   *)
(* so compute_metrics and aggregate_metrics add nothing.                       *)

\* the EvalResult run_sweep builds, with every field of the dataclass
HarnessEvalResult(theta, objective, metrics, artifacts, seed, config_hash, timestamp, provenance) ==
    [theta |-> theta, objective |-> objective, metrics |-> metrics,
     artifacts |-> artifacts, seed |-> seed, config_hash |-> config_hash,
     timestamp |-> timestamp, provenance |-> provenance]

SweepResult(evaluations, seed, parameter_space, config_hash, provenance) ==
    [evaluations |-> evaluations, seed |-> seed, parameter_space |-> parameter_space,
     config_hash |-> config_hash, provenance |-> provenance]

\* _resolve_seed that lets a missing seed pass
ResolveSeedLenient(seed, allow_unseeded) ==
    Ok(IF seed = None THEN 0 ELSE The(seed))

\* _resolve_seed; int(seed or 0) is 0 for None and for 0
ResolveSeed(seed, allow_unseeded) ==
    IF seed = None /\ ~allow_unseeded THEN Err("ValueError")
    ELSE Ok(IF seed = None \/ The(seed) = 0 THEN 0 ELSE The(seed))

\* _hash_payload: the digest of the payload's canonical JSON, equal exactly
\* for equal payloads
HashPayload(payload) == [sha256 |-> payload]

\* _derive_seed that hands every point the run seed
DeriveSeedFlat(seed, index) == seed

\* _derive_seed
DeriveSeed(seed, index) == seed + index

\* str(index) for the indexes of a sweep
Str(index) == <<"0", "1", "2", "3", "4", "5", "6", "7", "8">>[index + 1]

\* config = dict(base_config); config.update(point)
DictUpdate(base, point) ==
    {e \in base : \A i \in 1..Len(point) : point[i][1] # e[1]}
        \cup {point[i] : i \in 1..Len(point)}

\* the harness object after its constructor, with the results a sweep before
\* this one may have stored
Harness(name, allow_unseeded, results) ==
    [pc |-> "idle", name |-> name, allow_unseeded |-> allow_unseeded,
     results |-> results, before |-> results,
     seed |-> None, base_config |-> {}, sweep_spec |-> <<>>,
     run_seed |-> 0, points |-> <<>>, base_hash |-> <<>>, evaluations |-> <<>>,
     samples |-> <<>>, adapter_calls |-> <<>>, raised |-> "", raised_in |-> "",
     returned |-> <<>>]

\* run_sweep up to the loop: the seed is resolved, then the points are sampled
RunSweepEnter(h, base_config, sweep_spec, seed) ==
    LET named == [h EXCEPT !.seed = seed, !.base_config = base_config,
                           !.sweep_spec = sweep_spec]
        run_seed == ResolveSeed(seed, h.allow_unseeded)
    IN  IF run_seed.raised # ""
        THEN [named EXCEPT !.pc = "raised", !.raised = run_seed.raised,
                           !.raised_in = "_resolve_seed"]
        ELSE LET points == Sample(sweep_spec, run_seed.value)
                 sampled == [named EXCEPT !.run_seed = run_seed.value,
                                          !.samples = Append(@, run_seed.value)]
             IN  IF points.raised # ""
                 THEN [sampled EXCEPT !.pc = "raised", !.raised = points.raised,
                                      !.raised_in = "sample"]
                 ELSE [sampled EXCEPT !.pc = "loop", !.points = points.value,
                                      !.base_hash = HashPayload(base_config)]

\* the adapter call of the loop body for the next point
AdapterCall(h) ==
    LET index == Len(h.evaluations)
        point == h.points[index + 1]
    IN  [index |-> index, config |-> DictUpdate(h.base_config, point),
         seed |-> DeriveSeed(h.run_seed, index)]

\* the loop body turned into one that records a penalty and goes on
LoopBodyRaisedPenalty(h, exception) ==
    LET call == AdapterCall(h)
    IN  [h EXCEPT !.adapter_calls = Append(@, call),
                  !.raised = exception, !.raised_in = "adapter",
                  !.evaluations = Append(@,
                      HarnessEvalResult(h.points[call.index + 1], 999, {<<"penalty", 1>>},
                                        {}, call.seed, h.base_hash, 0, {}))]

\* the loop body when adapter.run raises: nothing catches it, run_sweep ends
LoopBodyRaised(h, exception) ==
    [h EXCEPT !.adapter_calls = Append(@, AdapterCall(h)),
              !.pc = "raised", !.raised = exception, !.raised_in = "adapter"]

\* the loop body when adapter.run returns `result`
LoopBodyReturned(h, result) ==
    LET call == AdapterCall(h)
        provenance == {e \in result.provenance :
                          e[1] \notin {"harness", "sampling_mode", "sweep_index"}}
                      \cup {<<"harness", h.name>>,
                            <<"sampling_mode", h.sweep_spec.mode>>,
                            <<"sweep_index", Str(call.index)>>}
    IN  [h EXCEPT !.adapter_calls = Append(@, call),
                  !.evaluations = Append(@,
                      HarnessEvalResult(h.points[call.index + 1], result.objective,
                                        result.metrics, result.artifacts, call.seed,
                                        h.base_hash, result.timestamp, provenance))]

\* after the loop: the results are stored and the SweepResult is returned
RunSweepLeave(h) ==
    [h EXCEPT !.pc = "returned", !.results = h.evaluations,
              !.returned = <<SweepResult(h.evaluations, h.run_seed,
                                         StableParameterNames(h.sweep_spec.parameters),
                                         h.base_hash,
                                         {<<"harness", h.name>>,
                                          <<"sampling_mode", h.sweep_spec.mode>>})>>]

\* what an adapter hands back: objective, metrics, artifacts, timestamp and
\* provenance are read by run_sweep, theta and seed are not
AdapterResults ==
    {[objective |-> objective, metrics |-> {<<"rmse", objective>>}, artifacts |-> {},
      timestamp |-> 0, provenance |-> {<<"adapter", "quadratic">>}] :
        objective \in 0..MaxObjective}

AdapterExceptions == {"RuntimeError"}

SweepSeeds == {None, Some(0), Some(3)}

BaseConfigs == {{}, {<<"a", 9>>, <<"z", 7>>}}

HarnessSweepSpecs ==
    {SweepSpec(parameters, mode, num_samples, <<>>) :
        parameters \in {<< <<"a", <<0, 2>>>> >>,
                        << <<"b", <<0, 2>>>>, <<"a", <<3, 1>>>> >>},
        mode \in {"grid", "random"},
        num_samples \in {None, Some(MaxSamples)}}

\* the results of an earlier sweep of one point with seed 5
EarlierResults ==
    << HarnessEvalResult(<<<<"a", 0>>>>, 1, {}, {}, 5, HashPayload({}), 0,
                         {<<"harness", "default">>})>>

InitHarness ==
    /\ \E allow_unseeded \in BOOLEAN, results \in {<<>>, EarlierResults} :
         harness = Harness("default", allow_unseeded, results)
    /\ logger = NoLogger
    /\ leaf = NoLeaf
    /\ calc = NoCalc
    /\ heap = NoHeap
    /\ decodeCall = NoDecode
    /\ StrategyUnused

RunSweepCall ==
    /\ harness.pc = "idle"
    /\ \E base_config \in BaseConfigs, sweep_spec \in HarnessSweepSpecs, seed \in SweepSeeds :
         harness' = RunSweepEnter(harness, base_config, sweep_spec, seed)
    /\ UNCHANGED <<strategyVars, leaf, calc, heap, decodeCall, logger>>

AdapterReturns ==
    /\ harness.pc = "loop"
    /\ Len(harness.evaluations) < Len(harness.points)
    /\ \E result \in AdapterResults : harness' = LoopBodyReturned(harness, result)
    /\ UNCHANGED <<strategyVars, leaf, calc, heap, decodeCall, logger>>

AdapterRaises ==
    /\ harness.pc = "loop"
    /\ Len(harness.evaluations) < Len(harness.points)
    /\ \E exception \in AdapterExceptions : harness' = LoopBodyRaised(harness, exception)
    /\ UNCHANGED <<strategyVars, leaf, calc, heap, decodeCall, logger>>

RunSweepReturn ==
    /\ harness.pc = "loop"
    /\ Len(harness.evaluations) = Len(harness.points)
    /\ harness' = RunSweepLeave(harness)
    /\ UNCHANGED <<strategyVars, leaf, calc, heap, decodeCall, logger>>

NextHarness == RunSweepCall \/ AdapterReturns \/ AdapterRaises \/ RunSweepReturn

SpecHarness == InitHarness /\ [][NextHarness]_vars

\* C22: the adapter is called once per sampled point, in sample order, call k
\* with the k-th point merged into its config and with seed run_seed + (k - 1),
\* each call answered before the next is made; the SweepResult returned holds
\* one evaluation per point in that order, evaluation k with seed
\* run_seed + (k - 1) and theta equal to point k
C22_SweepInSampleOrder ==
    harness.pc \in {"loop", "returned"}
    => /\ Len(harness.adapter_calls) = Len(harness.evaluations)
       /\ Len(harness.adapter_calls) <= Len(harness.points)
       /\ \A k \in 1..Len(harness.adapter_calls) :
             LET call == harness.adapter_calls[k]
                 point == harness.points[k]
             IN  /\ call.index = k - 1
                 /\ call.seed = harness.run_seed + (k - 1)
                 /\ \A i \in 1..Len(point) : point[i] \in call.config
       /\ harness.pc = "returned"
          => LET result == harness.returned[1]
             IN  /\ Len(harness.adapter_calls) = Len(harness.points)
                 /\ Len(result.evaluations) = Len(harness.points)
                 /\ \A k \in 1..Len(result.evaluations) :
                       /\ result.evaluations[k].seed = harness.run_seed + (k - 1)
                       /\ result.evaluations[k].theta = harness.points[k]

\* a grid of four points swept with seed 3 over a base config that names a too
C22_Witness ==
    /\ harness.pc = "returned"
    /\ harness.seed = Some(3)
    /\ harness.base_config # {}
    /\ Len(harness.points) = 4
    /\ harness.returned[1].evaluations[4].seed = 6
    /\ harness.returned[1].evaluations[4].theta = <<<<"a", 1>>, <<"b", 2>>>>
    /\ harness.adapter_calls[4].config = {<<"a", 1>>, <<"b", 2>>, <<"z", 7>>}

\* C23: run_sweep with seed None on a harness that does not allow unseeded
\* sweeps raises ValueError with no sample() call and no adapter call made; on
\* a harness that allows them the sweep runs with run seed 0
C23_SeedRequired ==
    (harness.pc # "idle" /\ harness.seed = None)
    => IF harness.allow_unseeded
       THEN /\ harness.raised_in # "_resolve_seed"
            /\ harness.run_seed = 0
            /\ harness.samples = <<0>>
            /\ \A k \in 1..Len(harness.adapter_calls) : harness.adapter_calls[k].seed = k - 1
            /\ harness.pc = "returned" => harness.returned[1].seed = 0
       ELSE /\ harness.pc = "raised"
            /\ harness.raised = "ValueError"
            /\ harness.raised_in = "_resolve_seed"
            /\ harness.samples = <<>>
            /\ harness.adapter_calls = <<>>
            /\ harness.returned = <<>>

\* the call without a seed was refused
C23_Witness ==
    /\ harness.pc = "raised"
    /\ harness.seed = None
    /\ ~harness.allow_unseeded
    /\ harness.raised = "ValueError"

\* the call without a seed ran two points with seeds 0 and 1
C23_UnseededWitness ==
    /\ harness.pc = "returned"
    /\ harness.seed = None
    /\ harness.allow_unseeded
    /\ Len(harness.returned[1].evaluations) = 2
    /\ harness.returned[1].evaluations[2].seed = 1

HarnessPenalty(result) ==
    \/ result.objective = 999
    \/ \E e \in result.metrics : e[1] = "penalty"

\* C24: once the adapter has raised on a point, run_sweep has ended with that
\* exception: no SweepResult was returned, no evaluation was built for that
\* point (so no penalty result either), the results stored by an earlier sweep
\* are as they were, and from then on no further adapter call is made
C24_AdapterFailurePropagates ==
    /\ [](harness.raised_in = "adapter"
          => /\ harness.pc = "raised"
             /\ harness.raised \in AdapterExceptions
             /\ harness.returned = <<>>
             /\ Len(harness.evaluations) = Len(harness.adapter_calls) - 1
             /\ \A k \in 1..Len(harness.evaluations) : ~HarnessPenalty(harness.evaluations[k])
             /\ harness.results = harness.before)
    /\ [][harness.raised_in = "adapter" => harness' = harness]_vars

\* the adapter raised on the second of four points of a harness that holds the
\* results of an earlier sweep
C24_Witness ==
    /\ harness.pc = "raised"
    /\ harness.raised_in = "adapter"
    /\ Len(harness.points) = 4
    /\ Len(harness.adapter_calls) = 2
    /\ harness.results = EarlierResults

-----------------------------------------------------------------------------
(* The serialisable mapping form of EvalResult, SweepResult and                *)
(* OptimizationHistory. A timestamp is an aware datetime: the wall clock       *)
(* reading and the UTC offset, in hours; two of them are equal when they name  *)
(* the same instant. A Python tuple and a Python list with the same items are  *)
(* different values.                                                           *)

Tuple(items) == [py |-> "tuple", items |-> items]
List(items) == [py |-> "list", items |-> items]

DateTime(wall, offset) == [wall |-> wall, offset |-> offset]

Instant(timestamp) == timestamp.wall - timestamp.offset

OptimizationHistory(evaluations, best, seed, parameter_space, config_hash, provenance) ==
    [evaluations |-> evaluations, best |-> best, seed |-> seed,
     parameter_space |-> parameter_space, config_hash |-> config_hash,
     provenance |-> provenance]

\* ISO-8601 text of the timestamp with its zone replaced by UTC, the clock
\* reading kept
IsoFormatKeepingWall(timestamp) == [iso |-> timestamp.wall, zone |-> "+00:00"]

\* ISO-8601 text of the timestamp normalised to UTC
IsoFormat(timestamp) == [iso |-> Instant(timestamp), zone |-> "+00:00"]

\* datetime.fromisoformat on such a text
FromIsoFormat(text) == DateTime(text.iso, 0)

\* EvalResult.to_dict
EvalToDict(r) ==
    [theta |-> r.theta, objective |-> r.objective, metrics |-> r.metrics,
     artifacts |-> r.artifacts, seed |-> r.seed, config_hash |-> r.config_hash,
     timestamp |-> IsoFormat(r.timestamp), provenance |-> r.provenance]

\* EvalResult.from_dict
EvalFromDict(d) ==
    HarnessEvalResult(d.theta, d.objective, d.metrics, d.artifacts, d.seed,
                      d.config_hash, FromIsoFormat(d.timestamp), d.provenance)

\* SweepResult.to_dict: the evaluations as a list of mappings, in order
SweepToDict(x) ==
    [evaluations |-> List([k \in 1..Len(x.evaluations.items) |->
                             EvalToDict(x.evaluations.items[k])]),
     seed |-> x.seed, parameter_space |-> List(x.parameter_space.items),
     config_hash |-> x.config_hash, provenance |-> x.provenance]

\* SweepResult.from_dict
SweepFromDict(d) ==
    SweepResult(Tuple([k \in 1..Len(d.evaluations.items) |->
                         EvalFromDict(d.evaluations.items[k])]),
                d.seed, Tuple(d.parameter_space.items), d.config_hash, d.provenance)

\* OptimizationHistory.to_dict: best is a mapping or None (<<>>)
HistoryToDict(x) ==
    [evaluations |-> List([k \in 1..Len(x.evaluations.items) |->
                             EvalToDict(x.evaluations.items[k])]),
     best |-> IF x.best = <<>> THEN <<>> ELSE <<EvalToDict(x.best[1])>>,
     seed |-> x.seed, parameter_space |-> List(x.parameter_space.items),
     config_hash |-> x.config_hash, provenance |-> x.provenance]

\* OptimizationHistory.from_dict
HistoryFromDict(d) ==
    OptimizationHistory(Tuple([k \in 1..Len(d.evaluations.items) |->
                                 EvalFromDict(d.evaluations.items[k])]),
                        IF d.best = <<>> THEN <<>> ELSE <<EvalFromDict(d.best[1])>>,
                        d.seed, Tuple(d.parameter_space.items), d.config_hash,
                        d.provenance)

\* r == q on two EvalResults: the dataclass compares field by field
EvalEquals(r, q) ==
    /\ r.theta = q.theta
    /\ r.objective = q.objective
    /\ r.metrics = q.metrics
    /\ r.artifacts = q.artifacts
    /\ r.seed = q.seed
    /\ r.config_hash = q.config_hash
    /\ Instant(r.timestamp) = Instant(q.timestamp)
    /\ r.provenance = q.provenance

\* == on two tuples or lists of EvalResults
EvaluationsEqual(a, b) ==
    /\ a.py = b.py
    /\ Len(a.items) = Len(b.items)
    /\ \A k \in 1..Len(a.items) : EvalEquals(a.items[k], b.items[k])

ContainerEquals(x, y) ==
    /\ EvaluationsEqual(x.evaluations, y.evaluations)
    /\ x.seed = y.seed
    /\ x.parameter_space = y.parameter_space
    /\ x.config_hash = y.config_hash
    /\ x.provenance = y.provenance

BestEquals(x, y) ==
    /\ Len(x.best) = Len(y.best)
    /\ \A k \in 1..Len(x.best) : EvalEquals(x.best[k], y.best[k])

\* populated results: every field set, the timestamp in one of three zones
Offsets == {-1, 0, 2}

PopulatedEvalResults ==
    {HarnessEvalResult(<<<<"alpha", value>>>>, objective, {<<"rmse", objective>>},
                       {<<"plot", "plot.png">>}, seed, "abc123",
                       DateTime(wall, offset), {<<"version", "0.0.0">>}) :
        value \in 0..1, objective \in 0..MaxObjective, seed \in {4, 7},
        wall \in 0..1, offset \in Offsets}

\* the evaluations of a container: one result, or two in either order
EvaluationTuples ==
    LET first == HarnessEvalResult(<<<<"alpha", 0>>>>, 1, {}, {}, 4, "", DateTime(0, 0), {})
    IN  {Tuple(<<r>>) : r \in PopulatedEvalResults}
        \cup {Tuple(<<first, r>>) : r \in PopulatedEvalResults}
        \cup {Tuple(<<r, first>>) : r \in PopulatedEvalResults}

InitTypes ==
    /\ \/ \E x \in PopulatedEvalResults : calc = [op |-> "input", type |-> "EvalResult", x |-> x]
       \/ \E evaluations \in EvaluationTuples :
            calc = [op |-> "input", type |-> "SweepResult",
                    x |-> SweepResult(evaluations, 4, Tuple(<<"alpha">>), "abc123",
                                      {<<"harness", "test">>})]
       \/ \E evaluations \in EvaluationTuples :
            calc = [op |-> "input", type |-> "OptimizationHistory",
                    x |-> OptimizationHistory(evaluations,
                                              Best(evaluations.items),
                                              4, Tuple(<<"alpha">>), "abc123",
                                              {<<"strategy", "random">>})]
    /\ leaf = NoLeaf
    /\ heap = NoHeap
    /\ decodeCall = NoDecode
    /\ harness = NoHarness
    /\ logger = NoLogger
    /\ StrategyUnused

\* payload = x.to_dict()
CallToDict ==
    /\ calc.op = "input"
    /\ calc' = [op |-> "to_dict", type |-> calc.type, x |-> calc.x,
                payload |-> CASE calc.type = "EvalResult" -> EvalToDict(calc.x)
                              [] calc.type = "SweepResult" -> SweepToDict(calc.x)
                              [] OTHER -> HistoryToDict(calc.x)]
    /\ UNCHANGED <<strategyVars, leaf, heap, decodeCall, harness, logger>>

\* restored = type(x).from_dict(payload)
CallFromDict ==
    /\ calc.op = "to_dict"
    /\ calc' = [op |-> "from_dict", type |-> calc.type, x |-> calc.x,
                payload |-> calc.payload,
                restored |-> CASE calc.type = "EvalResult" -> EvalFromDict(calc.payload)
                               [] calc.type = "SweepResult" -> SweepFromDict(calc.payload)
                               [] OTHER -> HistoryFromDict(calc.payload)]
    /\ UNCHANGED <<strategyVars, leaf, heap, decodeCall, harness, logger>>

NextTypes == CallToDict \/ CallFromDict

SpecTypes == InitTypes /\ [][NextTypes]_vars

\* C25: what from_dict gives back from the mapping to_dict wrote equals the
\* object it was written from: field by field for an EvalResult (the timestamp
\* as an instant), and for the containers the evaluations as a tuple in their
\* order, seed, parameter names, config hash, provenance and, in a history, the
\* best entry
C25_RoundTrip ==
    calc.op = "from_dict"
    => CASE calc.type = "EvalResult" -> EvalEquals(calc.restored, calc.x)
         [] calc.type = "SweepResult" -> ContainerEquals(calc.restored, calc.x)
         [] OTHER -> ContainerEquals(calc.restored, calc.x) /\ BestEquals(calc.restored, calc.x)

\* a history of two results stamped in different zones, the second one best
C25_Witness ==
    /\ calc.op = "from_dict"
    /\ calc.type = "OptimizationHistory"
    /\ Len(calc.x.evaluations.items) = 2
    /\ calc.x.evaluations.items[2].timestamp = DateTime(1, 2)
    /\ calc.x.best = <<calc.x.evaluations.items[2]>>
    /\ calc.payload.evaluations.py = "list"
    /\ calc.restored.evaluations.items[2].timestamp = DateTime(-1, 0)

-----------------------------------------------------------------------------
(* The runner's ask/evaluate/tell/record discipline *)

AskCount == Len(SelectSeq(callLog, LAMBDA e : e.op = "ask"))

TellCount == Len(SelectSeq(callLog, LAMBDA e : e.op = "tell"))

\* the results told to the strategy, in the order of the tell() calls
Told ==
    LET tells == SelectSeq(callLog, LAMBDA e : e.op = "tell")
    IN  [k \in 1..Len(tells) |-> tells[k].result[1]]

\* C26: when run() has returned, it made as many tell() calls as ask() calls
\* and no candidate it obtained is left without its tell(), whatever the batch
\* size and also when the strategy converged in the middle of a batch
C26_NoCandidateOutstanding ==
    pc = "done" => (AskCount = TellCount /\ outstanding = <<>>)

\* C27: in a run of a runner built with an empty history over a strategy
\* nobody has told anything, the results told to the strategy are the runner's
\* history, element for element, whenever no evaluation step is under way and
\* at return; inside a step the result is told first and recorded next, so
\* every result, a penalty result too, is told once and recorded once, in one
\* order
C27_ToldIsHistory ==
    (pc \in Running \cup {"done"} /\ frame.start_len = 0)
    => /\ Told = IF pc = "record" THEN Append(runner.history, frame.result[1])
                 ELSE runner.history
       /\ pc = "tell" => frame.result # <<>>

\* three results recorded, the second a penalty result
C27_Witness ==
    /\ pc = "done"
    /\ frame.start_len = 0
    /\ Len(runner.history) = 3
    /\ \E e \in runner.history[2].metrics : e[1] = "penalty"
    /\ runner.history[1].metrics = {}
    /\ Told = runner.history

\* the least objective of a non-empty history
LeastObjective(history) ==
    CHOOSE o \in {history[k].objective : k \in 1..Len(history)} :
        \A k \in 1..Len(history) : o <= history[k].objective

\* one more ask(): every candidate of the earlier batches went through its
\* four steps and no evaluation of this batch was made yet
AskBeforeEvaluations ==
    AskCount' = AskCount + 1
    => /\ Len(evalLog) = frame.batch_start_len
       /\ TellCount = frame.batch_start_len
       /\ Len(runner.history) = frame.batch_start_len
       /\ Len(logger.rows) = frame.batch_start_len

\* one more evaluation: the asks of the batch are all made, the candidate
\* before it is told, recorded and logged, and the candidate evaluated is the
\* oldest one asked and not yet told
EvaluateInAskOrder ==
    Len(evalLog') = Len(evalLog) + 1
    => /\ AskCount = frame.batch_start_len + frame.current_batch
       /\ TellCount = Len(evalLog)
       /\ Len(runner.history) = Len(evalLog)
       /\ Len(logger.rows) = Len(evalLog)
       /\ Last(evalLog').theta = Head(outstanding)

\* one more tell(): of the result of the evaluation just made, before it is
\* recorded
TellAfterEvaluate ==
    TellCount' = TellCount + 1
    => /\ Len(evalLog) = TellCount + 1
       /\ Len(runner.history) = TellCount
       /\ Last(callLog').result = frame.result
       /\ frame.result[1].theta = Last(evalLog).theta
       /\ frame.result[1].seed = Last(evalLog).seed

\* one more history entry: the result just told, before it is logged
AppendAfterTell ==
    Len(runner'.history) = Len(runner.history) + 1
    => /\ TellCount = Len(runner.history) + 1
       /\ Len(logger.rows) = Len(runner.history)
       /\ Last(runner'.history) = Last(Told)

\* one more logger row: of the result just appended, iteration its index in
\* the history and best the least objective of the history with it
LogAfterAppend ==
    Len(logger'.rows) = Len(logger.rows) + 1
    => LET row == Last(logger'.rows)
       IN  /\ Len(runner.history) = Len(logger.rows) + 1
           /\ row.iteration = Len(runner.history) - 1
           /\ row.objective = runner.history[row.iteration + 1].objective
           /\ row.seed = runner.history[row.iteration + 1].seed
           /\ row.theta = runner.history[row.iteration + 1].theta
           /\ row.best_objective = LeastObjective(runner.history)

\* C28: in a run of a fresh runner with a logger, the asks of a batch are all
\* made before its first evaluation; each candidate, in ask order, is
\* evaluated, then told, then appended to the history, then logged with its
\* history index and the least objective so far, and the next evaluation
\* starts only after that: never more than one evaluation is in flight
C28_SequentialBatch ==
    /\ [][/\ AskBeforeEvaluations
          /\ EvaluateInAskOrder
          /\ TellAfterEvaluate
          /\ AppendAfterTell
          /\ LogAfterAppend]_vars
    /\ [](/\ Len(evalLog) - Len(logger.rows) \in {0, 1}
          /\ Len(evalLog) >= TellCount
          /\ TellCount >= Len(runner.history)
          /\ Len(runner.history) >= Len(logger.rows))

\* a batch of two inside a run of three: the second row is not the best
C28_Witness ==
    /\ pc = "done"
    /\ frame.batch_size = 2
    /\ Len(logger.rows) = 3
    /\ logger.closed
    /\ logger.rows[2].iteration = 1
    /\ logger.rows[2].objective = 1
    /\ logger.rows[2].best_objective = 0
    /\ AskCount = 3

\* C29: run() makes no ask() and no evaluator call in a state where the
\* strategy reports is_converged, whatever the variant and the batch size, and
\* no ask() of a run ends in the portfolio's 'all portfolio strategies are
\* converged' error
C29_NoCallWhenConverged ==
    /\ [][(AskCount' = AskCount + 1 \/ Len(evalLog') = Len(evalLog) + 1)
          => ~StrategyIsConverged(strat)]_vars
    /\ [](\A k \in 1..Len(callLog) : callLog[k].error = "")

\* the same over the random and portfolio variants alone
NoCallWhenConvergedUnlessStaged ==
    /\ [][(strat.kind # "staged"
           /\ (AskCount' = AskCount + 1 \/ Len(evalLog') = Len(evalLog) + 1))
          => ~StrategyIsConverged(strat)]_vars
    /\ [](\A k \in 1..Len(callLog) : callLog[k].error = "")

\* C30: the current stage index of a StagedStrategy is always one of
\* 0 .. number of stages - 1 and no ask() or tell() lowers it; the stage a call
\* is delegated to is never one the index has left behind, so stages are
\* entered in their order and a stage once left gets no further ask() or
\* tell(); one call may move the index past several complete stages
C30_StageIndexMonotone ==
    /\ [](strat.current_stage_index \in 0..NumStages(strat) - 1)
    /\ [][/\ strat'.current_stage_index >= strat.current_stage_index
          /\ Len(callLog') = Len(callLog) + 1
             => \A i \in Last(callLog').members :
                   /\ i >= strat.current_stage_index
                   /\ i <= strat'.current_stage_index]_vars
    /\ [](\A j \in 1..Len(callLog), k \in 1..Len(callLog) :
             j < k => \A a \in callLog[j].members, b \in callLog[k].members : a <= b)

\* the first ask() went to the third stage: one advancement skipped two, and
\* later calls stayed there
C30_Witness ==
    /\ NumStages(strat) = 3
    /\ Len(callLog) = 3
    /\ callLog[1].op = "ask"
    /\ callLog[1].members = {2}
    /\ callLog[3].members = {2}
    /\ strat.current_stage_index = 2

\* the index moved from the first stage to the second after a tell()
C30_StepWitness ==
    /\ Len(callLog) = 3
    /\ callLog[1].members = {0}
    /\ callLog[2].op = "tell"
    /\ callLog[2].members = {0}
    /\ callLog[3].members = {1}
    /\ strat.current_stage_index = 1

-----------------------------------------------------------------------------
(* StagedStrategy: stage caps and the stage a result is delivered to *)

\* in every prefix of the calls made so far there are at least as many ask()
\* as tell(): each tell() reports on a candidate asked before it
TellsFollowAsks ==
    \A k \in 1..Len(callLog) :
        Len(SelectSeq(SubSeq(callLog, 1, k), LAMBDA e : e.op = "tell"))
            <= Len(SelectSeq(SubSeq(callLog, 1, k), LAMBDA e : e.op = "ask"))

\* stage i has not been told more results than stage_max_iterations[i]
WithinStageCap(s, i) == Len(s.stages[i].history) <= s.stage_max_iterations[1][i]

\* C31: with stage_max_iterations configured and every tell() preceded by a
\* matching ask(), no stage, the final stage included, is ever told more
\* results than its configured cap
C31_NoStageOverCap ==
    (strat.stage_max_iterations # NoStageCaps /\ TellsFollowAsks)
    => \A i \in DOMAIN strat.stages : WithinStageCap(strat, i)

\* the same bound for the stages before the final one, which is what
\* _advance_if_needed enforces
NoEarlierStageOverCap ==
    (strat.stage_max_iterations # NoStageCaps /\ TellsFollowAsks)
    => \A i \in DOMAIN strat.stages : i < NumStages(strat) - 1 => WithinStageCap(strat, i)

\* the final stage of two was told a second result although its cap is one
FinalStageOverCap ==
    /\ strat.stage_max_iterations # NoStageCaps
    /\ TellsFollowAsks
    /\ NumStages(strat) = 2
    /\ strat.stage_max_iterations[1][1] = 1
    /\ Len(strat.stages[1].history) = 2

\* the k-th tell() reached the stage whose ask() was the k-th ask()
TellReachesAskingStage(k) ==
    DeliveredTells(callLog)[k].members = SuccessfulAsks(callLog)[k].members

\* C32 as stated: with asks and tells paired in FIFO order, every result is
\* delivered to the stage whose ask() returned its candidate, also when several
\* asks are outstanding while the strategy advances
C32_TellReachesAskingStageAnyOrder ==
    TellsFollowAsks
    => \A k \in 1..Len(DeliveredTells(callLog)) : TellReachesAskingStage(k)

\* C32: tell() delivers the result to the stage that is current when it is
\* called; when asks and tells strictly alternate that is the stage whose ask()
\* returned the candidate, and when several asks are outstanding it is that
\* stage or a later one
C32_TellReachesCurrentStage ==
    /\ [][(Len(callLog') = Len(callLog) + 1 /\ Last(callLog').op = "tell")
          => Last(callLog').members = {strat.current_stage_index}]_vars
    /\ [](Alternating(callLog)
          => \A k \in 1..Len(DeliveredTells(callLog)) : TellReachesAskingStage(k))
    /\ [](TellsFollowAsks
          => \A k \in 1..Len(DeliveredTells(callLog)) :
                \A a \in SuccessfulAsks(callLog)[k].members,
                   b \in DeliveredTells(callLog)[k].members : a <= b)

\* alternating calls across a stage change: the first pair went to the first
\* stage, the second pair to the second
C32_Witness ==
    /\ Alternating(callLog)
    /\ Len(callLog) = 4
    /\ callLog[1].members = {0}
    /\ callLog[2].members = {0}
    /\ callLog[3].members = {1}
    /\ callLog[4].members = {1}

\* two candidates asked of the first stage, the second result told to the
\* second stage
C32_CrossedWitness ==
    /\ Len(callLog) = 4
    /\ callLog[1].op = "ask" /\ callLog[1].members = {0}
    /\ callLog[2].op = "ask" /\ callLog[2].members = {0}
    /\ callLog[3].op = "tell" /\ callLog[3].members = {0}
    /\ callLog[4].op = "tell" /\ callLog[4].members = {1}

-----------------------------------------------------------------------------
(* PortfolioStrategy: member budgets and the ask() that finds no member *)

\* member i of the portfolio has been told no more results than its max_iterations
WithinMemberBudget(p, i) ==
    \A m \in p.strategies[i].max_iterations : Len(p.strategies[i].history) <= m

\* C33: for every interleaving of ask() and tell(), several outstanding asks
\* included, a RandomStrategy member with max_iterations = m is told at most m
\* results: no result is delivered to a member that is already converged
C33_MemberWithinBudget ==
    \A i \in Members(strat) : WithinMemberBudget(strat, i)

\* the same bound when at most one ask is outstanding at any time
MemberWithinBudgetAlternating ==
    Alternating(callLog) => \A i \in Members(strat) : WithinMemberBudget(strat, i)

\* a member with max_iterations = 1 was asked twice before the first tell() and
\* holds two results
MemberOverBudget ==
    /\ \E i \in Members(strat) :
          /\ strat.strategies[i].max_iterations = Some(1)
          /\ Len(strat.strategies[i].history) = 2
    /\ \A k \in 1..Len(callLog) : callLog[k].error = ""

\* C34: an ask() that raises because every member is converged leaves the
\* portfolio as it was: the round-robin pointer, the pending-owner queue, the
\* history and every member are what they were before the call, and no
\* member's ask() was invoked
C34_FailedAskLeavesState ==
    [][(Len(callLog') = Len(callLog) + 1 /\ Last(callLog').op = "ask"
            /\ Last(callLog').error = "RuntimeError")
       => /\ PortfolioIsConverged(strat)
          /\ strat'.next_strategy_index = strat.next_strategy_index
          /\ strat'.pending_owner_indices = strat.pending_owner_indices
          /\ strat'.history = strat.history
          /\ strat' = strat
          /\ Last(callLog').members = {}
          /\ outstanding' = outstanding]_vars

\* a failed ask() on a portfolio of two converged members whose pointer stood at
\* the second member: the scan wrapped around and came back to it
C34_Witness ==
    /\ callLog # <<>>
    /\ Last(callLog).op = "ask"
    /\ Last(callLog).error = "RuntimeError"
    /\ NumStrategies(strat) = 2
    /\ strat.next_strategy_index = 1
    /\ Len(strat.history) >= 1

-----------------------------------------------------------------------------
(* OptimizationRunner.run: termination *)

\* one step of a run that has been entered; the interpreter takes the next step
\* of run() whenever there is one
RunStep == LoopTest \/ AskStep \/ Evaluate \/ Tell \/ Record \/ Return

\* runners with the default penalty_objective, as in InitTwoRuns: the value of
\* a penalty plays no part in the loop control
SpecFair == InitTwoRuns /\ [][Next]_vars /\ WF_vars(RunStep)

\* C35: run() terminates. Whenever the outer loop is entered the batch holds at
\* least one candidate, every completed pass has added at least one result to
\* the history, a run makes at most `iterations` evaluator calls, and a run that
\* passed the argument checks (iterations >= 0, batch_size >= 1) returns or
\* ends in the exception of a failed ask() or tell()
C35_RunTerminates ==
    /\ [](pc \in {"ask", "for", "tell", "record"}
          => /\ frame.batch_size >= 1
             /\ frame.current_batch >= 1)
    /\ []((pc = "while" /\ frame.candidates # <<>>)
          => Len(runner.history) >= frame.batch_start_len + 1)
    /\ [](pc \in Running \cup {"done"} => Len(evalLog) <= frame.iterations)
    /\ [][(pc = "while" /\ pc' = "while") => Len(runner'.history) > Len(runner.history)]_vars
    /\ (pc = "while") ~> (pc = "done" \/ pc = "raised")
    /\ [](\A k \in 1..Len(callLog) : callLog[k].error = "")

\* a run of three iterations in batches of two returned after three evaluations
\* made in two passes of the outer loop
C35_Witness ==
    /\ pc = "done"
    /\ frame.iterations = 3
    /\ frame.batch_size = 2
    /\ frame.start_len = 0
    /\ frame.batch_start_len = 2
    /\ Len(evalLog) = 3
    /\ Len(Last(returned).evaluations) = 3

-----------------------------------------------------------------------------
(* OptimizationRunner.run called a second time on the same runner *)

\* a runner built with a RandomStrategy and an evaluator, on an empty history
InitRerun ==
    /\ InitRunner
    /\ strat.kind = "random"
    /\ runner = OptimizationRunner(TRUE, TRUE, 100, 999, <<>>)

\* run() is called again after an earlier call returned; the runner, its
\* history and its strategy are what that call left behind
RunAgain ==
    /\ pc = "done"
    /\ frame.call = 1
    /\ \E iterations \in Iterations, batch_size \in BatchSizes :
         RunEnter(iterations, batch_size)

NextRerun == Run \/ RunAgain \/ LoopTest \/ AskStep \/ Evaluate \/ Tell \/ Record \/ Return

SpecRerun == InitRerun /\ [][NextRerun]_vars

\* the call in progress (or just finished) is a second call whose budget was
\* already met when it was entered
BudgetAlreadyMet ==
    /\ frame.call = 2
    /\ pc \in Running \cup {"done"}
    /\ frame.iterations <= frame.start_len

\* C36: run(iterations = n) called again on a runner whose history already holds
\* n or more results performs no ask(), no evaluator call and no tell(), leaves
\* the history and the strategy as they were, and returns the history already
\* recorded, equal to what the earlier call returned
C36_RunIdempotent ==
    /\ [][BudgetAlreadyMet
          => /\ callLog' = callLog
             /\ evalLog' = evalLog
             /\ runner' = runner
             /\ strat' = strat]_vars
    /\ [](BudgetAlreadyMet => pc \in {"while", "return", "done"})
    /\ []((BudgetAlreadyMet /\ pc = "done")
          => /\ Last(returned).error = <<>>
             /\ Last(returned).evaluations = runner.history
             /\ Len(runner.history) = frame.start_len
             /\ Last(returned) = returned[Len(returned) - 1])

\* a first run(3) recorded three results; run(2) on the same runner returned
\* them again
C36_Witness ==
    /\ pc = "done"
    /\ frame.call = 2
    /\ frame.iterations = 2
    /\ frame.start_len = 3
    /\ Len(evalLog) = 3
    /\ Len(Last(returned).evaluations) = 3

\* a second run with budget left goes on evaluating
C36_ContinuesWitness ==
    /\ pc = "done"
    /\ frame.call = 2
    /\ frame.start_len = 1
    /\ Len(runner.history) = 3

-----------------------------------------------------------------------------
(* ParameterSpace.decode: what the result shares with base *)

\* the dot paths of up to three segments over the names of the modelled configs
ConfigPaths ==
    UNION {[1..n -> {"a", "b"}] : n \in 1..3}

IsPrefix(p, q) == Len(p) <= Len(q) /\ SubSeq(q, 1, Len(p)) = p

DecodePaths == {ResolvedPath(decodeCall.parameters[i]) : i \in 1..Len(decodeCall.parameters)}

\* q lies on the path of some parameter: it leads to a parameter's leaf, is that
\* leaf, or lies below it
OnParameterPath(q) == \E p \in DecodePaths : IsPrefix(q, p) \/ IsPrefix(p, q)

\* what base held at q before the call, and what the result holds at q
BaseAt(q) ==
    IF decodeCall.base = None THEN Err("KeyError")
    ELSE GetByPath(decodeCall.before, Ref(The(decodeCall.base)), q)

ResultAt(q) == GetByPath(heap, Ref(The(decodeCall.result)), q)

\* the result differs from base only at the parameters' paths: what base holds
\* off those paths the result holds too, with an equal value; the result holds
\* nothing else off those paths; every parameter's leaf holds the value decoded
\* for it; a node on the way to a leaf is the node base had there, or a dict
\* made for the purpose that holds nothing but entries on parameter paths
DecodeFrame ==
    /\ \A q \in ConfigPaths :
          (BaseAt(q).raised = "" /\ ~OnParameterPath(q))
          => /\ ResultAt(q).raised = ""
             /\ DeepEqual(heap, ResultAt(q).value, BaseAt(q).value)
    /\ \A q \in ConfigPaths :
          (ResultAt(q).raised = "" /\ ~OnParameterPath(q)) => BaseAt(q).raised = ""
    /\ \A i \in 1..Len(decodeCall.parameters) :
          ResultAt(ResolvedPath(decodeCall.parameters[i])) = Ok(Num(decodeCall.written[i]))
    /\ \A q \in ConfigPaths :
          (\E p \in DecodePaths : IsPrefix(q, p) /\ q # p)
          => /\ ResultAt(q).raised = ""
             /\ ResultAt(q).value.tag = "ref"
             /\ IF BaseAt(q).raised = ""
                THEN heap[ResultAt(q).value.v].kind = heap[BaseAt(q).value.v].kind
                ELSE heap[ResultAt(q).value.v].kind = "dict"

\* no parameter's path equals, or leads through, another parameter's path
DisjointPaths ==
    \A i, j \in 1..Len(decodeCall.parameters) :
        i # j => ~IsPrefix(ResolvedPath(decodeCall.parameters[i]),
                           ResolvedPath(decodeCall.parameters[j]))

\* base holds no node under two keys: each node is referred to at most once
TreeShaped ==
    LET nodes == 1..Len(decodeCall.before)
        entries == UNION {decodeCall.before[n].fields : n \in nodes}
    IN  \A id \in nodes :
            Cardinality({x \in nodes \X entries :
                            x[2] \in decodeCall.before[x[1]].fields /\ x[2][2] = Ref(id)}) <= 1

\* C37 as stated: whatever the parameters and the base, the object decode
\* returns differs from base only at the parameters' resolved paths and holds
\* each parameter's decoded value at its path
C37_DecodeFrameAnyInput ==
    (decodeCall.pc = "done" /\ decodeCall.raised = "") => DecodeFrame

\* C37: for parameters none of whose paths equals or leads through another's,
\* and a base that holds no node under two keys, the object decode returns
\* differs from base only at the parameters' resolved paths: off-path keys and
\* fields keep their values, missing intermediate nodes are created as new
\* dicts, and the leaf at each parameter's path holds its decoded value
C37_DecodeFrame ==
    (decodeCall.pc = "done" /\ decodeCall.raised = "" /\ DisjointPaths /\ TreeShaped)
    => DecodeFrame

\* two parameters decoded into a dict that had neither path: the intermediate
\* dict was created, and the key base had beside them is still there
C37_Witness ==
    /\ decodeCall.pc = "done"
    /\ decodeCall.raised = ""
    /\ DisjointPaths /\ TreeShaped
    /\ Len(decodeCall.parameters) = 2
    /\ decodeCall.base # None
    /\ BaseAt(<<"a">>).raised = ""
    /\ BaseAt(<<"b">>).raised # ""
    /\ ResultAt(<<"b", "b">>).raised = ""
    /\ ResultAt(<<"a", "b">>).raised = ""

\* an intermediate dict created on an empty base
C37_CreatedWitness ==
    /\ decodeCall.pc = "done"
    /\ decodeCall.raised = ""
    /\ decodeCall.base # None
    /\ decodeCall.before[The(decodeCall.base)].fields = {}
    /\ ResultAt(<<"a", "b">>).raised = ""

\* a parameter at path a written after one at a.b: the earlier leaf is gone
C37_OverwrittenWitness ==
    /\ decodeCall.pc = "done"
    /\ decodeCall.raised = ""
    /\ TreeShaped /\ ~DisjointPaths

\* one dict held under two keys of base: the write through a shows under b
C37_AliasedWitness ==
    /\ decodeCall.pc = "done"
    /\ decodeCall.raised = ""
    /\ DisjointPaths /\ ~TreeShaped
    /\ ~DecodeFrame

-----------------------------------------------------------------------------
(* CMAESStrategy.__post_init__: the start point and the step size *)

\* a float as an exact fraction with a positive denominator
Rat(num, den) == [num |-> num, den |-> den]
RatDiv(r, k) == Rat(r.num, r.den * k)
RatEq(r, q) == r.num * q.den = q.num * r.den

Max(a, b) == IF a >= b THEN a ELSE b

\* sum((upper - lower) for lower, upper in zip(lowers, uppers)), from index i on
RECURSIVE SumSpans(_, _, _)
SumSpans(lowers, uppers, i) ==
    IF i > Len(lowers) THEN 0 ELSE (uppers[i] - lowers[i]) + SumSpans(lowers, uppers, i + 1)

\* the default step size with the dimension divided out twice
DefaultSigma0PerDimension(lowers, uppers) ==
    LET avg_span == Rat(SumSpans(lowers, uppers, 1), 1)
    IN  RatDiv(RatDiv(RatDiv(avg_span, Max(Len(lowers), 1)), Max(Len(lowers), 1)), 3)

\* lines 60-61: avg_span holds the sum of the spans, which is then divided by
\* the number of parameters and by 3
DefaultSigma0(lowers, uppers) ==
    LET avg_span == Rat(SumSpans(lowers, uppers, 1), 1)
    IN  RatDiv(RatDiv(avg_span, Max(Len(lowers), 1)), 3)

\* __post_init__ up to the construction of the optimizer: the exception it
\* raises, or the x0 and sigma0 the optimizer is built with
CMAESPostInit(parameter_space, seed, sigma0, available) ==
    LET built == CMAESOverSpace(parameter_space, seed, available).built
        lowers == [i \in 1..Len(parameter_space) |-> The(parameter_space[i].bounds)[1]]
        uppers == [i \in 1..Len(parameter_space) |-> The(parameter_space[i].bounds)[2]]
    IN  IF built # "" THEN [raised |-> built, x0 |-> <<>>, sigma0 |-> Rat(0, 1)]
        ELSE [raised |-> "",
              x0 |-> [i \in 1..Len(parameter_space) |-> Rat(lowers[i] + uppers[i], 2)],
              sigma0 |-> IF sigma0 = None THEN DefaultSigma0(lowers, uppers)
                         ELSE The(sigma0)]

\* one to three parameters p1, p2, p3, each with bounds of span 0, 2, 4 or 6 or
\* categorical
CMAESBounds == {<<0, 2>>, <<-2, 2>>, <<1, 1>>, <<-4, -2>>, <<0, 6>>}

CMAESParameter(i, kind) ==
    IF kind = <<>> THEN Parameter(<<"p1", "p2", "p3">>[i], None, Some(<<10, 20>>), None, None)
    ELSE Parameter(<<"p1", "p2", "p3">>[i], Some(kind), None, None, None)

CMAESSpaces ==
    UNION {{[i \in 1..n |-> CMAESParameter(i, kinds[i])] :
                kinds \in [1..n -> CMAESBounds \cup {<<>>}]} : n \in 1..3}

Sigma0Choices == {None, Some(Rat(1, 1)), Some(Rat(1, 2))}

InitCMAES ==
    /\ \E parameter_space \in CMAESSpaces, sigma0 \in Sigma0Choices, available \in BOOLEAN :
         calc = [op |-> "cmaes", parameter_space |-> parameter_space, sigma0 |-> sigma0,
                 available |-> available, out |-> <<>>]
    /\ leaf = NoLeaf
    /\ heap = NoHeap
    /\ decodeCall = NoDecode
    /\ harness = NoHarness
    /\ logger = NoLogger
    /\ StrategyUnused

\* CMAESStrategy(parameter_space=..., seed=1, sigma0=...)
ConstructCMAES ==
    /\ calc.op = "cmaes"
    /\ calc.out = <<>>
    /\ calc' = [calc EXCEPT !.out = <<CMAESPostInit(calc.parameter_space, 1, calc.sigma0,
                                                    calc.available)>>]
    /\ UNCHANGED <<strategyVars, leaf, heap, decodeCall, harness, logger>>

NextCMAES == ConstructCMAES

SpecCMAES == InitCMAES /\ [][NextCMAES]_vars

\* the constructor returned, and sigma0 was not supplied
DefaultStep == calc.out # <<>> /\ calc.out[1].raised = "" /\ calc.sigma0 = None

\* the search starts at the midpoint of every parameter's bounds: as far from
\* the lower bound as from the upper
StartsAtMidpoint ==
    \A i \in 1..Len(calc.parameter_space) :
        LET bounds == The(calc.parameter_space[i].bounds)
            x == calc.out[1].x0[i]
        IN  x.num - bounds[1] * x.den = bounds[2] * x.den - x.num

\* the average of the parameters' bound spans
AverageSpan ==
    LET n == Len(calc.parameter_space)
    IN  Rat(SumSpans([i \in 1..n |-> The(calc.parameter_space[i].bounds)[1]],
                     [i \in 1..n |-> The(calc.parameter_space[i].bounds)[2]], 1), n)

\* C38 as stated: without a sigma0 the search starts at the midpoint of every
\* parameter's bounds and the step size is the average bound span divided by
\* the dimension and then by 3
C38_SigmaPerDimension ==
    DefaultStep
    => /\ StartsAtMidpoint
       /\ RatEq(calc.out[1].sigma0,
                RatDiv(RatDiv(AverageSpan, Len(calc.parameter_space)), 3))

\* C38: without a sigma0 the search starts at the midpoint of every parameter's
\* bounds and the step size is the average bound span divided by 3, that is the
\* sum of the spans divided by the dimension and then by 3; a sigma0 that was
\* supplied is used as it is
C38_DefaultSigma ==
    /\ DefaultStep
       => /\ StartsAtMidpoint
          /\ RatEq(calc.out[1].sigma0, RatDiv(AverageSpan, 3))
    /\ (calc.out # <<>> /\ calc.out[1].raised = "" /\ calc.sigma0 # None)
       => /\ StartsAtMidpoint
          /\ calc.out[1].sigma0 = The(calc.sigma0)

\* two parameters with spans 2 and 6: the step size is 4/3, not 2/3
C38_Witness ==
    /\ DefaultStep
    /\ Len(calc.parameter_space) = 2
    /\ The(calc.parameter_space[1].bounds) = <<0, 2>>
    /\ The(calc.parameter_space[2].bounds) = <<0, 6>>
    /\ RatEq(calc.out[1].sigma0, Rat(4, 3))
    /\ calc.out[1].x0 = <<Rat(2, 2), Rat(6, 2)>>

-----------------------------------------------------------------------------
(* OptimizationLogger: the best-so-far snapshot stream *)

\* the row logged for iteration i (0-based) has an objective strictly below
\* that of every row logged before it
Improves(row) ==
    \A j \in 1..row.iteration : logger.rows[j].objective > row.objective

\* the row's objective is not above that of any row logged before it
ImprovesOrTies(row) ==
    \A j \in 1..row.iteration : logger.rows[j].objective >= row.objective

\* C39: log_evaluation appends a snapshot to the best-so-far stream only when
\* the result's objective is strictly lower than every objective logged before
\* it, or it is the first evaluation; a result that ties the current best
\* produces no snapshot, as with the earliest-occurrence-wins rule of
\* OptimizationRunner.best
C39_SnapshotOnlyOnImprovement ==
    logger # NoLogger
    => logger.best_rows = SelectSeq(logger.rows, Improves)

\* what the logger does: a snapshot for every result that improves on or ties
\* the best objective logged so far
SnapshotOnTieOrImprovement ==
    logger # NoLogger => logger.best_rows = SelectSeq(logger.rows, ImprovesOrTies)

\* two evaluations with the same objective, two snapshots
TiedSnapshot ==
    /\ logger # NoLogger
    /\ Len(logger.rows) = 2
    /\ logger.rows[1].objective = logger.rows[2].objective
    /\ Len(logger.best_rows) = 2

====
